---- MODULE Spec2Model ----
(***************************************************************************)
(* A model of next-llms-generator (src/src/generate.ts and friends).       *)
(*                                                                         *)
(* The module holds several specifications over one set of variables; a    *)
(* specification drives one part of the program and leaves the variables   *)
(* of the other parts at their idle values:                                *)
(*                                                                         *)
(*   SpecFetch   crawlSinglePage on one URL, with fetchWithRetry's         *)
(*               attempts, back-off waits and the final PageResult         *)
(*   SpecCrawl   crawlPages: the worker pool over a URL list               *)
(*   SpecLimits  applyCharacterLimits: the Assembler's budget loop         *)
(*   Spec        generate(): the pipeline from the sitemap to the          *)
(*               assembled document                                        *)
(*                                                                         *)
(* Strings whose length or characters the program looks at (page content,  *)
(* error messages, skip reasons) are sequences of one-character strings;   *)
(* strings that are only compared (URLs, titles, content types) are TLA+   *)
(* strings.  An absent optional field is NoString (""), the empty          *)
(* sequence for a character sequence, or NoNumber (-1): the program tests  *)
(* such fields for truthiness only.  PageResult's timestamp (the wall      *)
(* clock) is left out.                                                     *)
(***************************************************************************)
EXTENDS Integers, Sequences, FiniteSets, TLC

(***************************************************************************)
(* Bounds of the model.                                                    *)
(***************************************************************************)
\* longest extracted page text the server hands out
MaxContentLen == 3

\* longest URL list given to crawlPages
MaxUrls == 3

\* largest options.concurrency
MaxConcurrency == 2

\* largest options.retries the caller may configure
MaxRetriesOpt == 4

\* longest page list given to applyCharacterLimits
MaxLimitPages == 3

\* largest options.maxCharsPerPage and options.maxTotalChars of the budget runs
MaxPerPageOpt == 3

MaxTotalOpt == 4

\* largest maxPages the caller supplies to generate()
MaxPagesOpt == 2

\* longest root sitemap
MaxSitemapUrls == 2

\* largest options.maxRecursiveDepth
MaxDepthOpt == 2

\* most blocks of a child sitemap
MaxChildUrls == 2

\* most blocks of the root sitemap of extractUrls
MaxRootBlocks == 2

\* most parameters of a URL's query
MaxQueryParams == 2

(***************************************************************************)
(* Program constants.                                                      *)
(***************************************************************************)
\* fetchWithRetry(url, retries = 3): no caller passes the second argument
DefaultRetries == 3

\* const delay = 250 * (attempt + 1)
BackoffBase == 250

\* html.length > 5 * 1024 * 1024
MaxHtmlLength == 5 * 1024 * 1024

NoString == ""

NoNumber == -1

(***************************************************************************)
(* String literals of the source, as character sequences.                  *)
(***************************************************************************)
Str_FailedToFetch == <<"F", "a", "i", "l", "e", "d", " ", "t", "o", " ", "f", "e", "t", "c", "h", ":", " ">>

Str_HTTP == <<"H", "T", "T", "P", " ">>

Str_ColonSpace == <<":", " ">>

Str_Space == <<" ">>

Str_NoContentExtracted == <<"N", "o", " ", "c", "o", "n", "t", "e", "n", "t", " ", "e", "x", "t", "r", "a", "c", "t", "e", "d", ".">>

Str_NonHtmlContentType == <<"N", "o", "n", "-", "H", "T", "M", "L", " ", "c", "o", "n", "t", "e", "n", "t", " ", "t", "y", "p", "e">>

Str_ContentTooLarge == <<"C", "o", "n", "t", "e", "n", "t", " ", "t", "o", "o", " ", "l", "a", "r", "g", "e">>

Str_FetchParseErrorOpen == <<"(", "F", "e", "t", "c", "h", "/", "p", "a", "r", "s", "e", " ", "e", "r", "r", "o", "r", ":", " ">>

Str_CloseParen == <<")">>

Str_HttpDash == <<"h", "t", "t", "p", "-">>

Str_ContentType == <<"c", "o", "n", "t", "e", "n", "t", "-", "t", "y", "p", "e">>

Str_TooLarge == <<"t", "o", "o", "-", "l", "a", "r", "g", "e">>

Str_ParseError == <<"p", "a", "r", "s", "e", "-", "e", "r", "r", "o", "r">>

Str_NotFound == <<"N", "o", "t", " ", "F", "o", "u", "n", "d">>

Str_InternalServerError == <<"I", "n", "t", "e", "r", "n", "a", "l", " ", "S", "e", "r", "v", "e", "r", " ", "E", "r", "r", "o", "r">>

Str_OK == <<"O", "K">>

Str_FetchFailed == <<"f", "e", "t", "c", "h", " ", "f", "a", "i", "l", "e", "d">>

Str_Aborted == <<"T", "h", "i", "s", " ", "o", "p", "e", "r", "a", "t", "i", "o", "n", " ", "w", "a", "s", " ", "a", "b", "o", "r", "t", "e", "d">>

Str_TruncatedAt == <<"\n", "\n", "[", "T", "R", "U", "N", "C", "A", "T", "E", "D", " ", "a", "t", " ">>

Str_CharsClose == <<" ", "c", "h", "a", "r", "s", "]">>

Str_TransformerFailed == <<"t", "r", "a", "n", "s", "f", "o", "r", "m", "e", "r", " ", "f", "a", "i", "l", "e", "d">>

Str_FailedToParseUrl == <<"F", "a", "i", "l", "e", "d", " ", "t", "o", " ", "p", "a", "r", "s", "e", " ", "U", "R", "L">>

Str_Unknown == <<"u", "n", "k", "n", "o", "w", "n">>

(***************************************************************************)
(* The state.                                                              *)
(***************************************************************************)
VARIABLES
    optRetries,       \* options.retries
    optTransformer,    \* options.contentTransformer: "identity" (the default), "mark", "throw"
    optSiteUrl,        \* options.siteUrl (NoString: not set)
    optSitemapUrl,     \* options.sitemapUrl
    optContentFilter,  \* options.contentFilter (NoContentFilter: {})
    siteChildren,      \* the site's other sitemap documents, by URL
    siteLinks,         \* the href values of the site's pages, by URL
    fEntry,     \* the SitemapUrl crawlSinglePage was called for
    fpc,        \* "idle", "call", "await_fetch", "backoff", "await_text", "returned"
    fAttempt,   \* fetchWithRetry's loop variable attempt
    fIssued,    \* number of fetch() requests issued so far
    fLog,       \* what each attempt ended in, in order
    fDelays,    \* the back-off waits, in order (milliseconds)
    fFetch,     \* what fetchWithRetry returned (a response) or threw (an error)
    fPage,       \* the PageResult crawlSinglePage returned
    fExtractCalls,   \* number of extractContent calls crawlSinglePage made
    optConcurrency,  \* options.concurrency
    urls,            \* the argument of crawlPages: a sequence of SitemapUrl
    cpc,             \* "idle", "call", "running", "done"
    currentIndex,    \* let currentIndex = 0
    results,         \* const results: PageResult[] (a sparse array; NoPage is a hole)
    wpc,             \* per worker: "crawling" (at await crawlSinglePage) or "done"
    widx,            \* per worker: const index
    claimed,         \* per index: how many times a worker took it (crawlSinglePage calls)
    completion,      \* the indexes in the order their crawls completed
    returned,         \* what crawlPages returned
    optMaxCharsPerPage,  \* options.maxCharsPerPage
    optMaxTotalChars,    \* options.maxTotalChars
    lInput,              \* the argument pageResults
    lpc,                 \* "idle", "call", "done"
    processedResults,    \* the list applyCharacterLimits returned
    statsGlobalLimitReached,   \* stats.globalLimitReached
    statsTruncatedPages,       \* stats.truncatedPages
    userMaxPages,        \* the maxPages option the caller supplied (NoNumber: none)
    optMaxPages,         \* options.maxPages
    optOutputFormat,     \* options.outputFormat
    optFormatLimits,     \* options.formatLimits
    optRecursive,        \* options.enableRecursiveDiscovery
    optMaxDepth,         \* options.maxRecursiveDepth
    optMaxLinksPerPage,  \* options.maxLinksPerPage
    optInclude,          \* options.includePatterns (string patterns)
    optExclude,          \* options.excludePatterns (string patterns)
    siteSitemap,         \* the <url> entries of the site's root sitemap
    siteBehaviour,       \* how each URL of the site answers
    gpc,                 \* the stage of generate() about to run; "done", "failed"
    sitemapUrls,         \* const urls = await this.extractUrls()
    filteredUrls,        \* const filteredUrls = this.filterUrls(urls)
    discovered,          \* discoverUrlsRecursively: the Map discovered
    dDepth,              \* discoverUrlsRecursively: the loop variable depth
    discoveredUrls,      \* const discoveredUrls
    sortedUrls,          \* const sortedUrls
    pageResults,         \* const pageResults = await this.crawlPages(sortedUrls)
    filteredResults,     \* const filteredResults
    document,            \* const finalContent, by its parts
    gError,              \* the type of the GeneratorError generate() threw
    requested,           \* the URLs requested from the network so far
    epc,                 \* extractUrls: "idle", "call", "children", "returned", "thrown"
    eChildren,           \* extractUrls: the child sitemaps still to parse
    eAllUrls,            \* extractUrls: the Map allUrls
    eResult,             \* extractUrls: the list returned
    eError,              \* extractUrls: the type of the error thrown
    eRequested,          \* extractUrls: the sitemap URLs fetched, in order
    nUrl,                \* normalizeUrl: the argument
    nKeep,               \* options.keepQueryParams
    npc,                 \* normalizeUrl: "idle", "call", "once", "twice"
    nOnce,               \* normalizeUrl(url)
    nTwice,              \* normalizeUrl(normalizeUrl(url))
    cfConfig,            \* ContentFilter: the configuration it was constructed with
    cfPages,             \* ContentFilter: the argument pages
    cfpc,                \* ContentFilter: "idle", "call", "filtered", "limited"
    cfCategorized,       \* filter: pages.map(page => this.categorize(page))
    cfFiltered,          \* what filter returned
    cfLimited,           \* what applyCategoryLimits returned
    xParsed,             \* extractContent: the document as JSDOM parsed it from the html
    xDocument,           \* extractContentWithFallbacks: the argument document
    xpc,                 \* extractContentWithFallbacks: "idle", "call", "returned", "thrown"
    xTried,              \* the extraction methods called, in order
    xResult,             \* what extractContentWithFallbacks returned
    kConcurrency,        \* extractLinksFromPages: options.concurrency
    kRound,              \* extractLinksFromPages: the URLs it was called with
    kDepth,              \* extractLinksFromPages: the argument depth
    kUrls,               \* extractLinksFromPages: the shared array urls
    kpc,                 \* extractLinksFromPages: "idle", "call", "running", "returned"
    kwpc,                \* per worker: "fetching", "delay", "done"
    kwurl,               \* per worker: const url
    kTaken,              \* the urls.shift() results, with the worker, in order
    kDiscovered,         \* extractLinksFromPages: the array discovered
    fsInclude,           \* options.fileIncludePatterns
    fsExclude,           \* options.fileExcludePatterns
    fsMaxDepth,          \* options.maxFileSystemDepth
    fspc,                \* discoverFilesFromFileSystem: "idle", "call", "scanning", "returned"
    fsPending,           \* the directory entries the for loops of scanDirectory still visit
    fsFiles,             \* const files: DiscoveredFile[] (their relativePath)
    fsStats,             \* const stats: FileDiscoveryStats
    fsDescended,         \* the directories scanDirectory was called for, in order
    rtConfig,            \* createGET: the argument config
    rtpc,                \* createGET: "idle", "create", "ready", "thrown"
    rtNow,               \* Date.now()
    rtCache,             \* ContentCache: the Map cache
    rtRequest,           \* per call of GET in flight: its argument request
    rtGet,               \* per call: "free", "generating" (at await generator.generate())
    rtCalls,             \* number of calls of GET so far
    rtGenerations,       \* number of generator.generate() calls so far
    rtResponses,         \* the responses GET returned, in order
    cliArgs,             \* process.argv.slice(2)
    clipc,               \* cli: "idle", "main", "generating", "exited"
    cliConfig,           \* LLMSCLI: this.config
    cliFiles,            \* the file system: the content of each file, by path
    cliDirs,             \* the file system: the directories
    cliExitCode,         \* the exit code of the process
    cliError             \* what run passed to logger.error (NoString: nothing)

optVars == <<optRetries, optTransformer, optSiteUrl, optSitemapUrl, optContentFilter,
             siteChildren, siteLinks>>

fetchVars == <<fEntry, fpc, fAttempt, fIssued, fLog, fDelays, fFetch, fPage,
               fExtractCalls>>

crawlVars == <<optConcurrency, urls, cpc, currentIndex, results, wpc, widx, claimed,
               completion, returned>>

limitVars == <<optMaxCharsPerPage, optMaxTotalChars, lInput, lpc, processedResults,
               statsGlobalLimitReached, statsTruncatedPages>>

genVars == <<userMaxPages, optMaxPages, optOutputFormat, optFormatLimits, optRecursive,
             optMaxDepth, optMaxLinksPerPage, optInclude, optExclude, siteSitemap,
             siteBehaviour, gpc, sitemapUrls, filteredUrls, discovered, dDepth,
             discoveredUrls, sortedUrls, pageResults, filteredResults, document, gError,
             requested>>

extractVars == <<epc, eChildren, eAllUrls, eResult, eError, eRequested>>

normVars == <<nUrl, nKeep, npc, nOnce, nTwice>>

filterVars == <<cfConfig, cfPages, cfpc, cfCategorized, cfFiltered, cfLimited>>

fallbackVars == <<xParsed, xDocument, xpc, xTried, xResult>>

linkVars == <<kConcurrency, kRound, kDepth, kUrls, kpc, kwpc, kwurl, kTaken,
              kDiscovered>>

scanVars == <<fsInclude, fsExclude, fsMaxDepth, fspc, fsPending, fsFiles, fsStats,
              fsDescended>>

routeVars == <<rtConfig, rtpc, rtNow, rtCache, rtRequest, rtGet, rtCalls, rtGenerations,
               rtResponses>>

cliVars == <<cliArgs, clipc, cliConfig, cliFiles, cliDirs, cliExitCode, cliError>>

toolVars == <<scanVars, routeVars, cliVars>>

vars == <<optVars, fetchVars, crawlVars, limitVars, genVars, extractVars, normVars,
          filterVars, fallbackVars, linkVars, toolVars>>

notFetch == <<crawlVars, limitVars, genVars, extractVars, normVars,
               filterVars, fallbackVars, linkVars, toolVars>>

notCrawl == <<fetchVars, limitVars, genVars, extractVars, normVars,
               filterVars, fallbackVars, linkVars, toolVars>>

notLimits == <<fetchVars, crawlVars, genVars, extractVars, normVars,
                filterVars, fallbackVars, linkVars, toolVars>>

notGen == <<fetchVars, crawlVars, extractVars, normVars,
             filterVars, fallbackVars, linkVars, toolVars>>

notExtract == <<fetchVars, crawlVars, limitVars, genVars, normVars,
                 filterVars, fallbackVars, linkVars, toolVars>>

notNorm == <<fetchVars, crawlVars, limitVars, genVars, extractVars,
             filterVars, fallbackVars, linkVars, toolVars>>

notFilter == <<fetchVars, crawlVars, limitVars, genVars, extractVars, normVars,
               fallbackVars, linkVars, toolVars>>

notFallback == <<fetchVars, crawlVars, limitVars, genVars, extractVars, normVars,
                 filterVars, linkVars, toolVars>>

notLinks == <<fetchVars, crawlVars, limitVars, genVars, extractVars, normVars,
              filterVars, fallbackVars, toolVars>>

allPipeline == <<fetchVars, crawlVars, limitVars, genVars, extractVars, normVars,
                filterVars, fallbackVars, linkVars>>

notScan == <<allPipeline, routeVars, cliVars>>

notRoute == <<allPipeline, scanVars, cliVars>>

notCli == <<allPipeline, scanVars, routeVars>>

\* the file discovery part of a specification that is not about the scan
ScanIdle ==
    /\ fsInclude = <<>> /\ fsExclude = <<>> /\ fsMaxDepth = 0 /\ fspc = "idle"
    /\ fsPending = <<>> /\ fsFiles = <<>> /\ fsStats = <<>> /\ fsDescended = <<>>

\* the route handler part of a specification that is not about the route
RouteIdle ==
    /\ rtConfig = <<>> /\ rtpc = "idle" /\ rtNow = 0 /\ rtCache = <<>>
    /\ rtRequest = <<>> /\ rtGet = <<>> /\ rtCalls = 0 /\ rtGenerations = 0
    /\ rtResponses = <<>>

\* the command line part of a specification that is not about the CLI
CliIdle ==
    /\ cliArgs = <<>> /\ clipc = "idle" /\ cliConfig = <<>> /\ cliFiles = <<>>
    /\ cliDirs = {} /\ cliExitCode = 0 /\ cliError = NoString

ToolsIdle == ScanIdle /\ RouteIdle /\ CliIdle

\* the link extraction part of a specification that is not about its workers
LinksIdle ==
    /\ kConcurrency = 0 /\ kRound = <<>> /\ kDepth = 0 /\ kUrls = <<>>
    /\ kpc = "idle" /\ kwpc = <<>> /\ kwurl = <<>> /\ kTaken = <<>>
    /\ kDiscovered = <<>>

\* the extraction part of a specification that is not about the fallbacks
FallbackIdle ==
    /\ xParsed = <<>> /\ xDocument = <<>> /\ xpc = "idle" /\ xTried = <<>>
    /\ xResult = <<>>

\* the ContentFilter part of a specification that is not about the filter
FilterIdle ==
    /\ cfConfig = <<>> /\ cfPages = <<>> /\ cfpc = "idle"
    /\ cfCategorized = <<>> /\ cfFiltered = <<>> /\ cfLimited = <<>>

(***************************************************************************)
(* Helpers: decimal formatting (template literals) and string length.      *)
(***************************************************************************)
DigitChar(d) == <<"0", "1", "2", "3", "4", "5", "6", "7", "8", "9">>[d + 1]

RECURSIVE Digits(_)
\* `${n}` for a non-negative integer n
Digits(n) == IF n < 10 THEN <<DigitChar(n)>>
             ELSE Digits(n \div 10) \o <<DigitChar(n % 10)>>

\* a text of n characters
RECURSIVE Text(_)
Text(n) == IF n = 0 THEN <<>> ELSE Text(n - 1) \o <<"x">>

\* the elements of a sequence
Range(seq) == {seq[i] : i \in 1..Len(seq)}

\* s.substring(0, n) for n >= 0
Substring0(s, n) == SubSeq(s, 1, IF n < Len(s) THEN n ELSE Len(s))

(***************************************************************************)
(* Options (GeneratorOptions after mergeWithDefaults).                     *)
(***************************************************************************)

Transformers == {"identity", "mark", "throw"}

\* options.contentTransformer(content, url): the default returns its argument;
\* "mark" stands for a caller's transformer, one that appends a character;
\* "throw" for one that throws an Error
ContentTransformer(t, content) ==
    IF t = "identity" THEN content ELSE content \o <<"!">>

\* the call of the transformer ends in an exception
TransformerThrows(t) == t = "throw"

(***************************************************************************)
(* The network: what one attempt of fetch() can end in.                    *)
(***************************************************************************)
StatusText(status) ==
    CASE status = 200 -> Str_OK
      [] status = 404 -> Str_NotFound
      [] OTHER        -> Str_InternalServerError

\* the document behind a text/html response: html.length, and what the
\* extraction finds in it
Html(length, text) == [length |-> length, title |-> "Title", text |-> text, lang |-> "en"]

NoBody == Html(0, <<>>)

Response(status, contentType, body) ==
    [kind |-> "response", status |-> status, statusText |-> StatusText(status),
     contentType |-> contentType, body |-> body]

\* an Error thrown by fetch(): a network failure, or the abort of the timeout
TransportError(name, message) == [kind |-> "error", name |-> name, message |-> message]

\* response.ok
Ok(response) == response.status >= 200 /\ response.status <= 299

HtmlBodies == {Html(10 + n, Text(n)) : n \in 0..MaxContentLen}
                  \cup {Html(MaxHtmlLength, Text(1)), Html(MaxHtmlLength + 1, Text(1))}

OkResponses == {Response(200, "text/html", b) : b \in HtmlBodies}
                  \cup {Response(200, "application/json", NoBody)}

ErrorStatuses == {404, 500}

ErrorResponses == {Response(s, "text/html", NoBody) : s \in ErrorStatuses}

TransportErrors == {TransportError("TypeError", Str_FetchFailed),
                    TransportError("AbortError", Str_Aborted)}

AttemptOutcomes == OkResponses \cup ErrorResponses \cup TransportErrors

(***************************************************************************)
(* PageResult and crawlSinglePage.                                         *)
(***************************************************************************)
SitemapUrl(loc, lastmod) == [loc |-> loc, lastmod |-> lastmod]

\* new GeneratorError(`HTTP ${status}: ${statusText}`, NETWORK_ERROR, url)
HttpError(response) ==
    [kind |-> "error", name |-> "GeneratorError",
     message |-> Str_HTTP \o Digits(response.status) \o Str_ColonSpace \o response.statusText]

\* crawlSinglePage, !response.ok
HttpSkipResult(entry, response) ==
    [url |-> entry.loc, title |-> "Skipped",
     content |-> Str_FailedToFetch \o Digits(response.status) \o Str_Space \o response.statusText,
     success |-> FALSE, error |-> Str_HTTP \o Digits(response.status),
     contentLength |-> 0, statusCode |-> response.status,
     skipReason |-> Str_HttpDash \o Digits(response.status),
     truncated |-> FALSE, originalLength |-> NoNumber,
     lastmod |-> entry.lastmod, language |-> NoString]

\* crawlSinglePage, content type without text/html
ContentTypeSkipResult(entry, response) ==
    [url |-> entry.loc, title |-> "Skipped", content |-> Str_NoContentExtracted,
     success |-> FALSE, error |-> Str_NonHtmlContentType,
     contentLength |-> 0, statusCode |-> response.status,
     skipReason |-> Str_ContentType,
     truncated |-> FALSE, originalLength |-> NoNumber,
     lastmod |-> entry.lastmod, language |-> NoString]

\* crawlSinglePage, html.length > 5 MiB
TooLargeSkipResult(entry, response) ==
    [url |-> entry.loc, title |-> "Skipped", content |-> Str_NoContentExtracted,
     success |-> FALSE, error |-> Str_ContentTooLarge,
     contentLength |-> 0, statusCode |-> response.status,
     skipReason |-> Str_TooLarge,
     truncated |-> FALSE, originalLength |-> NoNumber,
     lastmod |-> entry.lastmod, language |-> NoString]

\* crawlSinglePage, catch (error)
ParseErrorResultAsSuccess(entry, error) ==
    [url |-> entry.loc, title |-> "Skipped",
     content |-> Str_FetchParseErrorOpen \o error.message \o Str_CloseParen,
     success |-> TRUE, error |-> error.message,
     contentLength |-> 0, statusCode |-> 0,
     skipReason |-> Str_ParseError,
     truncated |-> FALSE, originalLength |-> NoNumber,
     lastmod |-> entry.lastmod, language |-> NoString]

ParseErrorResult(entry, error) ==
    [url |-> entry.loc, title |-> "Skipped",
     content |-> Str_FetchParseErrorOpen \o error.message \o Str_CloseParen,
     success |-> FALSE, error |-> error.message,
     contentLength |-> 0, statusCode |-> 0,
     skipReason |-> Str_ParseError,
     truncated |-> FALSE, originalLength |-> NoNumber,
     lastmod |-> entry.lastmod, language |-> NoString]

\* extractContent(url, html): the text the extraction finds, then the
\* content transformer
ExtractContent(html, transformer) ==
    [title |-> html.title, content |-> ContentTransformer(transformer, html.text),
     language |-> html.lang]

\* crawlSinglePage, the successful page: the transformer is applied to
\* what extractContent returned
SuccessResult(entry, response, transformer) ==
    LET extracted == ExtractContent(response.body, transformer)
        transformedContent == ContentTransformer(transformer, extracted.content)
    IN  [url |-> entry.loc, title |-> extracted.title, content |-> transformedContent,
         success |-> TRUE, error |-> <<>>,
         contentLength |-> Len(transformedContent), statusCode |-> response.status,
         skipReason |-> <<>>,
         truncated |-> FALSE, originalLength |-> Len(transformedContent),
         lastmod |-> entry.lastmod, language |-> extracted.language]

\* contentType.includes('text/html')
IsHtml(contentType) == contentType \in {"text/html", "text/html; charset=utf-8"}

\* html.length > 5 * 1024 * 1024
ExceedsHtmlLimitNever(html) == FALSE

ExceedsHtmlLimit(html) == html.length > MaxHtmlLength

\* the Error a caller's transformer throws
TransformerError == [kind |-> "error", name |-> "Error", message |-> Str_TransformerFailed]

\* crawlSinglePage from the point where fetchWithRetry has returned or
\* thrown (fetched is a response, or the error fetchWithRetry threw): the
\* PageResult returned, and the number of extractContent calls made.  An
\* exception of the transformer, which extractContent calls, lands in the
\* catch block like every other.
CrawlSinglePageRun(entry, fetched, transformer) ==
    IF fetched.kind = "error"
    THEN [page |-> ParseErrorResult(entry, fetched), extractCalls |-> 0]
    ELSE IF ~Ok(fetched)
    THEN [page |-> HttpSkipResult(entry, fetched), extractCalls |-> 0]
    ELSE IF ~IsHtml(fetched.contentType)
    THEN [page |-> ContentTypeSkipResult(entry, fetched), extractCalls |-> 0]
    ELSE IF ExceedsHtmlLimit(fetched.body)
    THEN [page |-> TooLargeSkipResult(entry, fetched), extractCalls |-> 0]
    ELSE IF TransformerThrows(transformer)
    THEN [page |-> ParseErrorResult(entry, TransformerError), extractCalls |-> 1]
    ELSE [page |-> SuccessResult(entry, fetched, transformer), extractCalls |-> 1]

\* the PageResult crawlSinglePage returns
CrawlSinglePage(entry, fetched, transformer) ==
    CrawlSinglePageRun(entry, fetched, transformer).page

(***************************************************************************)
(* fetchWithRetry inside crawlSinglePage, one URL: the attempts, the       *)
(* back-off waits between them, and the PageResult the page ends in.       *)
(***************************************************************************)

Entries == {SitemapUrl("https://site.test/a", "2024-01-02"),
            SitemapUrl("https://site.test/b", "2024-01-01"),
            SitemapUrl("https://site.test/c", NoString)}

NoEntry == SitemapUrl(NoString, NoString)

NoFetch == [kind |-> "none"]

NoPage == [url |-> NoString]

\* the retries fetchWithRetry runs with: its callers (parseSitemap,
\* extractLinksFromPage, crawlSinglePage) pass the URL only, so the parameter
\* takes its default and options.retries is not read
RetriesUsed(configured) == DefaultRetries

\* if (attempt === retries - 1) throw error
IsLastAttempt(attempt, retries) == attempt = retries - 1

\* const delay = 250 * (attempt + 1)
BackoffDelay(attempt) == BackoffBase * (attempt + 1)

\* the error the catch block of fetchWithRetry sees for an attempt's outcome:
\* a non-OK response is thrown as a GeneratorError, a transport error is itself
AttemptError(outcome) == IF outcome.kind = "response" THEN HttpError(outcome) ELSE outcome

FetchIdle ==
    /\ fEntry = NoEntry /\ fpc = "idle" /\ fAttempt = 0 /\ fIssued = 0
    /\ fLog = <<>> /\ fDelays = <<>> /\ fFetch = NoFetch /\ fPage = NoPage
    /\ fExtractCalls = 0

\* crawlSinglePage calls fetchWithRetry: attempt = 0 enters the loop and
\* issues the first request
FetchCall ==
    /\ fpc = "call"
    /\ fAttempt' = 0
    /\ IF 0 < RetriesUsed(optRetries)
       THEN /\ fIssued' = fIssued + 1
            /\ fpc' = "await_fetch"
            /\ UNCHANGED <<fFetch, fPage>>
       ELSE \* the throw after the loop
            LET e == TransportError("GeneratorError", Str_FetchFailed)
            IN  /\ fFetch' = e
                /\ fPage' = CrawlSinglePage(fEntry, e, optTransformer)
                /\ fpc' = "returned"
                /\ UNCHANGED fIssued
    /\ UNCHANGED <<fEntry, fLog, fDelays, fExtractCalls, optVars>>
    /\ UNCHANGED notFetch

\* await fetch(...) settles with outcome o
FetchSettles(o) ==
    /\ fpc = "await_fetch"
    /\ fLog' = Append(fLog, o)
    /\ IF o.kind = "response" /\ Ok(o)
       THEN \* return response; crawlSinglePage goes on
            /\ fFetch' = o
            /\ IF IsHtml(o.contentType)
               THEN fpc' = "await_text" /\ UNCHANGED fPage
               ELSE fpc' = "returned" /\ fPage' = CrawlSinglePage(fEntry, o, optTransformer)
            /\ UNCHANGED fDelays
       ELSE \* thrown inside the try, caught by the loop's catch
            LET e == AttemptError(o)
            IN  IF IsLastAttempt(fAttempt, RetriesUsed(optRetries))
                THEN /\ fFetch' = e
                     /\ fPage' = CrawlSinglePage(fEntry, e, optTransformer)
                     /\ fpc' = "returned"
                     /\ UNCHANGED fDelays
                ELSE /\ fDelays' = Append(fDelays, BackoffDelay(fAttempt))
                     /\ fpc' = "backoff"
                     /\ UNCHANGED <<fFetch, fPage>>
    /\ UNCHANGED <<fEntry, fAttempt, fIssued, fExtractCalls, optVars>>
    /\ UNCHANGED notFetch

\* the back-off timer fires: attempt++ and the next request
BackoffElapsed ==
    /\ fpc = "backoff"
    /\ fAttempt' = fAttempt + 1
    /\ fIssued' = fIssued + 1
    /\ fpc' = "await_fetch"
    /\ UNCHANGED <<fEntry, fLog, fDelays, fFetch, fPage, fExtractCalls, optVars>>
    /\ UNCHANGED notFetch

\* await response.text() settles; the size check, extraction and result
ReadBody ==
    /\ fpc = "await_text"
    /\ LET run == CrawlSinglePageRun(fEntry, fFetch, optTransformer)
       IN  /\ fPage' = run.page
           /\ fExtractCalls' = run.extractCalls
    /\ fpc' = "returned"
    /\ UNCHANGED <<fEntry, fAttempt, fIssued, fLog, fDelays, fFetch, optVars>>
    /\ UNCHANGED notFetch

FetchNext ==
    \/ FetchCall
    \/ \E o \in AttemptOutcomes : FetchSettles(o)
    \/ BackoffElapsed
    \/ ReadBody

(***************************************************************************)
(* crawlPages: the worker pool.  A worker runs without interruption from   *)
(* one await to the next, so "store the result, test the loop condition,   *)
(* claim the next index, start its crawl" is one step.  What a page's      *)
(* crawl ends in is CrawlSinglePage of what fetchWithRetry returned or     *)
(* threw for it; crawlSinglePage catches every error itself, so the catch  *)
(* block of the worker is never entered.                                   *)
(***************************************************************************)

IsHole(r) == r.url = NoString

\* arr[index] = v on a JavaScript array (index from 0): a write past the
\* end leaves holes before it
ArrayPush(arr, index, v) == Append(arr, v)

ArraySet(arr, index, v) ==
    IF index < Len(arr) THEN [arr EXCEPT ![index + 1] = v]
    ELSE arr \o [k \in 1..(index - Len(arr)) |-> NoPage] \o <<v>>

\* arr.filter(Boolean)
FilterBoolean(arr) == SelectSeq(arr, LAMBDA r : ~IsHole(r))

\* currentIndex++ (the value after)
NextIndexStuck(index) == index

NextIndex(index) == index + 1

\* what fetchWithRetry can return or throw for a page of the pool
BodyOf(entry) == IF entry.lastmod = NoString THEN Html(10, Text(0)) ELSE Html(12, Text(2))

CrawlFetched(entry) ==
    {Response(200, "text/html", BodyOf(entry)),
     Response(200, "application/json", NoBody),
     HttpError(Response(404, "text/html", NoBody)),
     TransportError("TypeError", Str_FetchFailed)}

PoolEntries == {SitemapUrl("https://site.test/a", "2024-01-02"),
                SitemapUrl("https://site.test/c", NoString)}

RECURSIVE WorkerLoop(_, _, _)
\* worker w from the top of `while (currentIndex < urls.length)` to its next
\* await, or to its end; st holds currentIndex, wpc, widx and claimed
WorkerLoop(st, w, list) ==
    IF st.currentIndex < Len(list)
    THEN LET index == st.currentIndex
             taken == [st EXCEPT !.currentIndex = NextIndex(index),
                                 !.claimed[index] = @ + 1]
         IN  IF list[index + 1].loc = NoString
             THEN WorkerLoop(taken, w, list)                      \* if (!url) continue
             ELSE [taken EXCEPT !.wpc[w] = "crawling", !.widx[w] = index]
    ELSE [st EXCEPT !.wpc[w] = "done"]

RECURSIVE StartWorkers(_, _, _, _)
\* Array.from({ length: concurrency }, () => worker()): each worker runs to
\* its first await before the next one is created
StartWorkers(st, w, n, list) ==
    IF w > n THEN st ELSE StartWorkers(WorkerLoop(st, w, list), w + 1, n, list)

PoolState == [currentIndex |-> currentIndex, wpc |-> wpc, widx |-> widx, claimed |-> claimed]

SetPoolState(st) ==
    /\ currentIndex' = st.currentIndex
    /\ wpc' = st.wpc
    /\ widx' = st.widx
    /\ claimed' = st.claimed

CrawlIdle ==
    /\ optConcurrency = 0 /\ urls = <<>> /\ cpc = "idle" /\ currentIndex = 0
    /\ results = <<>> /\ wpc = <<>> /\ widx = <<>> /\ claimed = <<>>
    /\ completion = <<>> /\ returned = <<>>

\* crawlPages is called: results = [], currentIndex = 0, the workers start
CrawlPagesCall ==
    /\ cpc = "call"
    /\ results' = <<>>
    /\ SetPoolState(StartWorkers(
           [currentIndex |-> 0,
            wpc |-> [w \in 1..optConcurrency |-> "new"],
            widx |-> [w \in 1..optConcurrency |-> 0],
            claimed |-> [i \in 0..(Len(urls) - 1) |-> 0]],
           1, optConcurrency, urls))
    /\ cpc' = "running"
    /\ UNCHANGED <<optConcurrency, urls, completion, returned, optVars>>
    /\ UNCHANGED notCrawl

\* worker w's await crawlSinglePage settles: the result goes to its slot
\* and the worker goes round its loop
WorkerResumes(w) ==
    /\ cpc = "running"
    /\ wpc[w] = "crawling"
    /\ \E fetched \in CrawlFetched(urls[widx[w] + 1]) :
           results' = ArraySet(results, widx[w],
                               CrawlSinglePage(urls[widx[w] + 1], fetched, optTransformer))
    /\ completion' = Append(completion, widx[w])
    /\ SetPoolState(WorkerLoop(PoolState, w, urls))
    /\ UNCHANGED <<optConcurrency, urls, cpc, returned, optVars>>
    /\ UNCHANGED notCrawl

\* await Promise.all(workers) settles: return results.filter(Boolean)
CrawlPagesReturn ==
    /\ cpc = "running"
    /\ \A w \in 1..optConcurrency : wpc[w] = "done"
    /\ returned' = FilterBoolean(results)
    /\ cpc' = "done"
    /\ UNCHANGED <<optConcurrency, urls, currentIndex, results, wpc, widx, claimed,
                   completion, optVars>>
    /\ UNCHANGED notCrawl

CrawlNext ==
    \/ CrawlPagesCall
    \/ \E w \in 1..optConcurrency : WorkerResumes(w)
    \/ CrawlPagesReturn

(***************************************************************************)
(* applyCharacterLimits: the per-page limit and the global budget.         *)
(***************************************************************************)

\* `\n\n[TRUNCATED at ${maxCharsPerPage} chars]`
TruncationMarker(maxCharsPerPage) ==
    Str_TruncatedAt \o Digits(maxCharsPerPage) \o Str_CharsClose

\* if (result.content.length > maxCharsPerPage)
ExceedsPageLimitOrEqual(result, maxCharsPerPage) == Len(result.content) >= maxCharsPerPage

ExceedsPageLimit(result, maxCharsPerPage) == Len(result.content) > maxCharsPerPage

\* the body of the loop up to totalChars +=: the copy of the page, truncated
\* when its content is over the per-page limit
TruncatePage(result, maxCharsPerPage) ==
    IF ExceedsPageLimit(result, maxCharsPerPage)
    THEN [result EXCEPT
            !.content = Substring0(result.content, maxCharsPerPage)
                          \o TruncationMarker(maxCharsPerPage),
            !.truncated = TRUE,
            !.originalLength = Len(result.content)]
    ELSE result

RECURSIVE LimitLoop(_, _, _, _, _)
\* for (const result of pages), from the i-th page on; acc holds
\* totalChars, processedResults and the two stats fields
LimitLoop(pages, i, acc, maxCharsPerPage, maxTotalChars) ==
    IF i > Len(pages) THEN acc
    ELSE IF acc.totalChars >= maxTotalChars
    THEN [acc EXCEPT !.globalLimitReached = TRUE]                    \* break
    ELSE LET processedResult == TruncatePage(pages[i], maxCharsPerPage)
         IN  LimitLoop(pages, i + 1,
                       [totalChars |-> acc.totalChars + Len(processedResult.content),
                        processedResults |-> Append(acc.processedResults, processedResult),
                        globalLimitReached |-> acc.globalLimitReached,
                        truncatedPages |-> acc.truncatedPages +
                            (IF ExceedsPageLimit(pages[i], maxCharsPerPage)
                             THEN 1 ELSE 0)],
                       maxCharsPerPage, maxTotalChars)

ApplyCharacterLimits(pages, maxCharsPerPage, maxTotalChars) ==
    LimitLoop(pages, 1,
              [totalChars |-> 0, processedResults |-> <<>>,
               globalLimitReached |-> FALSE, truncatedPages |-> 0],
              maxCharsPerPage, maxTotalChars)

LimitsIdle ==
    /\ optMaxCharsPerPage = 0 /\ optMaxTotalChars = 0 /\ lInput = <<>> /\ lpc = "idle"
    /\ processedResults = <<>> /\ statsGlobalLimitReached = FALSE
    /\ statsTruncatedPages = 0

\* applyCharacterLimits(pageResults, stats) on fresh stats
ApplyCharacterLimitsCall ==
    /\ lpc = "call"
    /\ LET out == ApplyCharacterLimits(lInput, optMaxCharsPerPage, optMaxTotalChars)
       IN  /\ processedResults' = out.processedResults
           /\ statsGlobalLimitReached' = out.globalLimitReached
           /\ statsTruncatedPages' = out.truncatedPages
    /\ lpc' = "done"
    /\ UNCHANGED <<optMaxCharsPerPage, optMaxTotalChars, lInput, optVars>>
    /\ UNCHANGED notLimits

(***************************************************************************)
(* generate(): the pipeline.  The site is an input: its root sitemap (a    *)
(* plain sitemap, as parsed into <url> entries), how each of its URLs      *)
(* answers, and the links of its pages.                                    *)
(***************************************************************************)
SiteUrl == "https://site.test"

RootSitemap == "https://site.test/sitemap.xml"

LocA == "https://site.test/a"

LocB == "https://site.test/b"

LocC == "https://site.test/c"

LocD == "https://site.test/d"

LocE == "https://site.test/e"

LocExternal == "https://other.test/x"

\* a page of the site whose URL ends in .xml
LocFeed == "https://site.test/feed.xml"

\* a siteUrl given without its scheme: new URL(siteUrl) throws
BareSiteUrl == "site.test"

\* child sitemaps of the site
ChildSitemap1 == "https://site.test/sitemap-1.xml"

ChildSitemap2 == "https://site.test/sitemap-2.xml"

ChildSitemap3 == "https://site.test/sitemap-3.xml"

\* `${siteUrl}/sitemap.xml`
DefaultSitemapUrl(siteUrl) ==
    CASE siteUrl = SiteUrl -> RootSitemap
      [] siteUrl = BareSiteUrl -> "site.test/sitemap.xml"
      [] OTHER -> "/sitemap.xml"

(***************************************************************************)
(* URLs.  The text of a URL is a record of its pieces as written: the      *)
(* host, the path, the query (NoQuery when there is no "?", else the       *)
(* name=value pairs as written, percent-escapes and all) and the fragment  *)
(* (NoFragment when there is no "#").  A text that new URL() rejects has   *)
(* valid = FALSE.                                                          *)
(***************************************************************************)
NoQuery == [present |-> FALSE, params |-> <<>>]

Query(params) == [present |-> TRUE, params |-> params]

Param(name, value) == [name |-> name, value |-> value]

NoFragment == [present |-> FALSE, text |-> NoString]

Fragment(text) == [present |-> TRUE, text |-> text]

UrlText(host, path, query, fragment) ==
    [valid |-> TRUE, host |-> host, path |-> path, query |-> query, fragment |-> fragment]

\* a text that is no absolute URL
RelativeText(text) ==
    [valid |-> FALSE, host |-> NoString, path |-> text, query |-> NoQuery,
     fragment |-> NoFragment]

\* the host parser lower-cases the host
LowerCaseHost(host) == IF host = "SITE.test" THEN "site.test" ELSE host

\* new URL(text) for a text it accepts: the host is lower-cased and an empty
\* path of an https URL becomes "/"
NewUrl(text) ==
    [text EXCEPT !.host = LowerCaseHost(text.host),
                 !.path = IF text.path = NoString THEN "/" ELSE text.path]

\* the value URLSearchParams.get returns for a value as written: "+" and
\* valid percent-escapes are decoded
DecodeValue(raw) ==
    CASE raw = "x%20y" -> "x y"
      [] raw = "x+y"   -> "x y"
      [] raw = "%2541" -> "%41"
      [] raw = "%41"   -> "A"
      [] OTHER         -> raw

\* what URLSearchParams.toString writes for a value
EncodeValueRaw(value) == value

EncodeValue(value) ==
    CASE value = "x y" -> "x+y"
      [] value = "%41" -> "%2541"
      [] OTHER         -> value

\* urlObj.searchParams.get(param): the first value of that name, decoded
HasParam(params, name) == \E i \in 1..Len(params) : params[i].name = name

GetParam(params, name) ==
    LET first == CHOOSE i \in 1..Len(params) :
                    /\ params[i].name = name
                    /\ \A j \in 1..(i - 1) : params[j].name # name
    IN  DecodeValue(params[first].value)

\* paramsToKeep.set(name, value) on the decoded list
SetParam(params, name, value) ==
    IF HasParam(params, name)
    THEN LET first == CHOOSE i \in 1..Len(params) :
                         /\ params[i].name = name
                         /\ \A j \in 1..(i - 1) : params[j].name # name
         IN  SelectSeq([i \in 1..Len(params) |->
                           IF i = first THEN Param(name, value) ELSE params[i]],
                       LAMBDA q : q.name # name \/ q = Param(name, value))
    ELSE Append(params, Param(name, value))

RECURSIVE ParamsToKeep(_, _, _, _)
\* for (const param of keepQueryParams): the decoded list paramsToKeep
ParamsToKeep(kept, params, keepQueryParams, i) ==
    IF i > Len(keepQueryParams) THEN kept
    ELSE ParamsToKeep(IF HasParam(params, keepQueryParams[i])
                      THEN SetParam(kept, keepQueryParams[i],
                                    GetParam(params, keepQueryParams[i]))
                      ELSE kept,
                      params, keepQueryParams, i + 1)

\* urlObj.search = value: the empty string removes the query
SetSearch(params) ==
    IF Len(params) = 0 THEN NoQuery
    ELSE Query([i \in 1..Len(params) |->
                   Param(params[i].name, EncodeValue(params[i].value))])

\* normalizeUrl on the text of a URL: the text is parsed, the fragment is
\* removed, the query is cut down to keepQueryParams, and the URL is
\* written out again; a text that does not parse is returned as it is
NormalizeUrlText(text, keepQueryParams) ==
    IF ~text.valid THEN text
    ELSE LET urlObj == NewUrl(text)
         IN  [urlObj EXCEPT
                 !.fragment = NoFragment,
                 !.query = IF Len(keepQueryParams) > 0
                           THEN SetSearch(ParamsToKeep(<<>>, urlObj.query.params,
                                                       keepQueryParams, 1))
                           ELSE NoQuery]

\* the texts of the URL strings the model names
UrlTextOf(url) ==
    CASE url = SiteUrl -> UrlText("site.test", NoString, NoQuery, NoFragment)
      [] url = "https://site.test/" -> UrlText("site.test", "/", NoQuery, NoFragment)
      [] url = LocA -> UrlText("site.test", "/a", NoQuery, NoFragment)
      [] url = LocB -> UrlText("site.test", "/b", NoQuery, NoFragment)
      [] url = LocC -> UrlText("site.test", "/c", NoQuery, NoFragment)
      [] url = LocD -> UrlText("site.test", "/d", NoQuery, NoFragment)
      [] url = LocE -> UrlText("site.test", "/e", NoQuery, NoFragment)
      [] url = LocFeed -> UrlText("site.test", "/feed.xml", NoQuery, NoFragment)
      [] url = "https://site.test/d#top" ->
             UrlText("site.test", "/d", NoQuery, Fragment("top"))
      [] url = "https://site.test/b?ref=a" ->
             UrlText("site.test", "/b", Query(<<Param("ref", "a")>>), NoFragment)
      [] url = LocExternal -> UrlText("other.test", "/x", NoQuery, NoFragment)
      [] url = RootSitemap -> UrlText("site.test", "/sitemap.xml", NoQuery, NoFragment)
      [] url = ChildSitemap1 -> UrlText("site.test", "/sitemap-1.xml", NoQuery, NoFragment)
      [] url = ChildSitemap2 -> UrlText("site.test", "/sitemap-2.xml", NoQuery, NoFragment)
      [] url = ChildSitemap3 -> UrlText("site.test", "/sitemap-3.xml", NoQuery, NoFragment)
      [] OTHER -> RelativeText(url)

NamedUrls ==
    {SiteUrl, "https://site.test/", LocA, LocB, LocC, LocD, LocE, LocFeed,
     "https://site.test/d#top", "https://site.test/b?ref=a", LocExternal, RootSitemap,
     ChildSitemap1, ChildSitemap2, ChildSitemap3}

\* the string of a text
UrlString(text) ==
    IF ~text.valid THEN text.path
    ELSE CHOOSE url \in NamedUrls : UrlTextOf(url) = text

\* new URL(url) does not throw
ParsesAsUrl(url) == UrlTextOf(url).valid

\* new URL(url).hostname, for a URL that parses
Hostname(url) == NewUrl(UrlTextOf(url)).host

\* url.endsWith('.xml')
EndsWithXml(url) ==
    url \in {RootSitemap, ChildSitemap1, ChildSitemap2, ChildSitemap3, LocFeed,
              "site.test/sitemap.xml", "/sitemap.xml"}

\* normalizeUrl with keepQueryParams = [] (the default)
NormalizeUrl(url) == UrlString(NormalizeUrlText(UrlTextOf(url), <<>>))

\* every URL counts as internal
IsInternalUrlAlways(url, siteUrl) == TRUE

\* isInternalUrl: a URL that does not parse is not internal
IsInternalUrl(url, siteUrl) ==
    /\ ParsesAsUrl(url) /\ ParsesAsUrl(siteUrl)
    /\ Hostname(url) = Hostname(siteUrl)

\* url.includes(pattern), for the string patterns of the model
UrlIncludes(url, pattern) ==
    CASE pattern = "/a" -> url = LocA
      [] pattern = "/b" -> url \in {LocB, "https://site.test/b?ref=a"}
      [] pattern = "/c" -> url = LocC
      [] pattern = "site.test" -> url = BareSiteUrl \/ Hostname(url) = "site.test"
      [] OTHER -> FALSE

\* matchesAnyPattern
MatchesAnyPattern(url, patterns) == \E p \in patterns : UrlIncludes(url, p)

\* a site whose page /a links to /d (with a fragment), /b (with a query),
\* another host and itself, /d links on to /e and back to /a, and the
\* home page links to /a
DefaultLinks ==
    [u \in {LocA, LocD, "https://site.test/"} |->
        CASE u = LocA -> <<"https://site.test/d#top", "https://site.test/b?ref=a",
                           LocExternal, LocA>>
          [] u = LocD -> <<LocE, LocA>>
          [] OTHER    -> <<LocA>>]

\* the link graphs of the model: the default one, a cycle through three
\* pages of the sitemap, a chain of four hops, pages that all link to each
\* other and to themselves, and a site without links
LinkGraphs ==
    {DefaultLinks,
     [u \in {LocA, LocB, LocC} |->
        CASE u = LocA -> <<LocB>> [] u = LocB -> <<LocC>> [] OTHER -> <<LocA>>],
     [u \in {LocA, LocD, LocE, LocB} |->
        CASE u = LocA -> <<LocD>> [] u = LocD -> <<LocE>> [] u = LocE -> <<LocB>>
          [] OTHER -> <<LocC>>],
     [u \in {LocA, LocB, LocD} |-> <<LocA, LocB, LocD>>],
     <<>>}

\* the href values of the page's anchors, resolved against the page's URL
LinksOf(url) == IF url \in DOMAIN siteLinks THEN siteLinks[url] ELSE <<>>

\* new Date(lastmod).getTime(), in days
DateTime(lastmod) ==
    CASE lastmod = "2024-01-01" -> 19723
      [] lastmod = "2024-01-02" -> 19724
      [] OTHER -> 0

\* the rank of a URL in localeCompare order
LocRank(url) ==
    CASE url = "https://site.test/" -> 1
      [] url = SiteUrl -> 0
      [] url = LocA -> 2
      [] url = LocB -> 3
      [] url = LocC -> 4
      [] url = LocD -> 5
      [] url = LocE -> 6
      [] url = LocFeed -> 7
      [] url = LocExternal -> -1
      [] OTHER -> 8

\* a sitemap document, as far as extractUrlsFromXml reads it: the sequence
\* of its <url> and <sitemap> blocks, each with a <loc> and perhaps a
\* <lastmod>
UrlBlock(loc, lastmod) == [tag |-> "url", loc |-> loc, lastmod |-> lastmod]

SitemapBlock(loc, lastmod) == [tag |-> "sitemap", loc |-> loc, lastmod |-> lastmod]

\* the <url> blocks a sitemap document of the site may hold
SitemapEntries ==
    {UrlBlock(e.loc, e.lastmod) : e \in Entries} \cup {UrlBlock(LocExternal, NoString)}

\* extractUrlsFromXml: the <url> blocks with their lastmod; when there is
\* none, every <loc> of the document, without lastmod
ExtractUrlsFromXml(xml) ==
    LET urlBlocks == SelectSeq(xml, LAMBDA b : b.tag = "url")
    IN  IF Len(urlBlocks) > 0
        THEN [i \in 1..Len(urlBlocks) |-> SitemapUrl(urlBlocks[i].loc, urlBlocks[i].lastmod)]
        ELSE [i \in 1..Len(xml) |-> SitemapUrl(xml[i].loc, NoString)]

\* how the site answers a URL: "ok" (an HTML page), "json", "404", "down"
SiteBehaviours ==
    LET allOk == [u \in {RootSitemap, NormalizeUrl(SiteUrl), LocA, LocB, LocC, LocD, LocE}
                     |-> "ok"]
    IN  {allOk,
         [allOk EXCEPT ![LocB] = "404", ![LocC] = "json"],
         [allOk EXCEPT ![LocA] = "down"],
         [allOk EXCEPT ![RootSitemap] = "down"],
         [allOk EXCEPT ![RootSitemap] = "404"]}

\* the Error of fetch() for an input that is no URL
FetchParseError == TransportError("TypeError", Str_FailedToParseUrl)

\* what fetchWithRetry returns or throws for a URL of the site (the request
\* carries no fragment, and the site ignores the query); a URL the site does
\* not know is a 404, and fetch() rejects an input that is no URL
SiteFetch(behaviour, entry) ==
    LET known == NormalizeUrl(entry.loc) \in DOMAIN behaviour
        how   == IF known THEN behaviour[NormalizeUrl(entry.loc)] ELSE "404"
    IN  CASE ~ParsesAsUrl(entry.loc) -> FetchParseError
          [] how = "ok"   -> Response(200, "text/html", BodyOf(entry))
          [] how = "json" -> Response(200, "application/json", NoBody)
          [] how = "404"  -> HttpError(Response(404, "text/html", NoBody))
          [] OTHER        -> TransportError("TypeError", Str_FetchFailed)

\* a sitemap document as the site serves it
Served(xml) == [how |-> "ok", xml |-> xml]

NotServed(how) == [how |-> how, xml |-> <<>>]

\* the sitemap documents of the site, by URL
SitemapDocs(sitemapUrl, rootXml, behaviour, children) ==
    [u \in {sitemapUrl} \cup DOMAIN children |->
        IF u \in DOMAIN children THEN children[u]
        ELSE IF RootSitemap \in DOMAIN behaviour /\ behaviour[RootSitemap] = "ok"
        THEN Served(rootXml)
        ELSE NotServed(behaviour[RootSitemap])]

DocAt(docs, url) == IF url \in DOMAIN docs THEN docs[url] ELSE NotServed("404")

(***************************************************************************)
(* Options of the pipeline.                                                *)
(***************************************************************************)
Formats == {"full", "small", "minimal"}

DefaultMaxPages == 5000

DefaultMaxCharsPerPage == 200000

DefaultMaxTotalChars == 50000000

DefaultMaxRecursiveDepth == 3

DefaultMaxLinksPerPage == 50

Limits(maxPages, maxCharsPerPage, maxTotalChars) ==
    [maxPages |-> maxPages, maxCharsPerPage |-> maxCharsPerPage,
     maxTotalChars |-> maxTotalChars]

\* mergeWithDefaults: formatLimits when the caller gives none
DefaultFormatLimits ==
    [full    |-> Limits(5000, 200000, 50000000),
     small   |-> Limits(100, 50000, 5000000),
     minimal |-> Limits(20, 10000, 200000)]

\* a caller's formatLimits that sets no limit (every field undefined)
EmptyFormatLimits ==
    [f \in Formats |-> Limits(NoNumber, NoNumber, NoNumber)]

\* applyFormatLimits: the limits of the output format replace the options
\* they define
ApplyFormatLimits(current, formatLimits, outputFormat) ==
    LET fl == formatLimits[outputFormat]
        pick(now, limit) == IF limit # NoNumber THEN limit ELSE now
    IN  Limits(pick(current.maxPages, fl.maxPages),
               pick(current.maxCharsPerPage, fl.maxCharsPerPage),
               pick(current.maxTotalChars, fl.maxTotalChars))

\* urls.slice(0, n) for n >= 0
Slice0(s, n) == SubSeq(s, 1, IF n < Len(s) THEN n ELSE Len(s))

\* what parseSitemap throws
SitemapThrown ==
    [thrown |-> TRUE, urls |-> <<>>, isIndex |-> FALSE, childSitemaps |-> <<>>]

\* a failure inside parseSitemap's try gives an empty, plain sitemap
ParseSitemapTolerant(sitemapUrl, siteUrl, docs) ==
    [thrown |-> FALSE, urls |-> <<>>, isIndex |-> FALSE, childSitemaps |-> <<>>]

\* parseSitemap: every failure inside its try (the fetch, a non-OK answer,
\* new URL(siteUrl)) is thrown as a NETWORK_ERROR; a document with a <loc>
\* ending in .xml is an index, and its .xml locations are its children;
\* of a plain sitemap the entries of the site's hostname are kept
ParseSitemap(sitemapUrl, siteUrl, docs) ==
    IF ~ParsesAsUrl(sitemapUrl) \/ DocAt(docs, sitemapUrl).how # "ok"
    THEN SitemapThrown
    ELSE LET found   == ExtractUrlsFromXml(DocAt(docs, sitemapUrl).xml)
             isIndex == \E i \in 1..Len(found) : EndsWithXml(found[i].loc)
             xmls    == SelectSeq(found, LAMBDA e : EndsWithXml(e.loc))
         IN  IF isIndex
             THEN [thrown |-> FALSE, urls |-> <<>>, isIndex |-> TRUE,
                   childSitemaps |-> [i \in 1..Len(xmls) |-> xmls[i].loc]]
             ELSE IF ~ParsesAsUrl(siteUrl) THEN SitemapThrown
             ELSE [thrown |-> FALSE,
                   urls |-> SelectSeq(found,
                                      LAMBDA e : /\ ParsesAsUrl(e.loc)
                                                 /\ Hostname(e.loc) = Hostname(siteUrl)),
                   isIndex |-> FALSE, childSitemaps |-> <<>>]

\* whether parseSitemap's fetch puts a request on the network
SitemapRequested(sitemapUrl) == ParsesAsUrl(sitemapUrl)

\* filterUrls
FilterUrls(list, includePatterns, excludePatterns, maxPages, siteUrl) ==
    LET included == IF includePatterns # {}
                    THEN SelectSeq(list, LAMBDA e : MatchesAnyPattern(e.loc, includePatterns))
                    ELSE list
        kept     == IF excludePatterns # {}
                    THEN SelectSeq(included,
                                   LAMBDA e : ~MatchesAnyPattern(e.loc, excludePatterns))
                    ELSE included
        limited  == Slice0(kept, maxPages)
    IN  IF Len(limited) = 0 THEN <<SitemapUrl(siteUrl, NoString)>> ELSE limited

(***************************************************************************)
(* discoverUrlsRecursively.  A Map is a sequence of key/value pairs in     *)
(* insertion order; setting an existing key keeps its position.            *)
(***************************************************************************)
DiscoveredUrl(url, depth, parentUrl, discoveryMethod, lastmod) ==
    [url |-> url, depth |-> depth, parentUrl |-> parentUrl,
     discoveryMethod |-> discoveryMethod, lastmod |-> lastmod]

\* a Map that never finds a key
MapHasNever(m, key) == FALSE

MapHas(m, key) == \E i \in 1..Len(m) : m[i].key = key

MapSet(m, key, value) ==
    IF MapHas(m, key)
    THEN [i \in 1..Len(m) |-> IF m[i].key = key THEN [key |-> key, value |-> value] ELSE m[i]]
    ELSE Append(m, [key |-> key, value |-> value])

\* Array.from(m.values())
MapValues(m) == [i \in 1..Len(m) |-> m[i].value]

(***************************************************************************)
(* extractUrls: the root sitemap, and for an index its child sitemaps.     *)
(***************************************************************************)
RECURSIVE SetAllUrls(_, _, _)
\* childResult.urls.forEach(urlEntry => allUrls.set(urlEntry.loc, urlEntry))
SetAllUrls(allUrls, childUrls, i) ==
    IF i > Len(childUrls) THEN allUrls
    ELSE SetAllUrls(MapSet(allUrls, childUrls[i].loc, childUrls[i]), childUrls, i + 1)

\* one pass of `for (const childSitemap of childSitemaps)`: the URLs of the
\* child go into allUrls; a child whose parseSitemap throws is skipped, and
\* of a child that is an index itself urls is empty
ParseChild(allUrls, childSitemap, siteUrl, docs) ==
    LET childResult == ParseSitemap(childSitemap, siteUrl, docs)
    IN  IF childResult.thrown THEN allUrls
        ELSE SetAllUrls(allUrls, childResult.urls, 1)

RECURSIVE ParseChildren(_, _, _, _, _)
ParseChildren(allUrls, childSitemaps, i, siteUrl, docs) ==
    IF i > Len(childSitemaps) THEN allUrls
    ELSE ParseChildren(ParseChild(allUrls, childSitemaps[i], siteUrl, docs),
                       childSitemaps, i + 1, siteUrl, docs)

\* extractUrls: the list returned (or thrown = TRUE), and the sitemap URLs
\* requested from the network
ExtractUrls(sitemapUrl, siteUrl, docs) ==
    LET sitemapResult == ParseSitemap(sitemapUrl, siteUrl, docs)
        rootRequest   == IF SitemapRequested(sitemapUrl) THEN {sitemapUrl} ELSE {}
    IN  IF sitemapResult.thrown
        THEN [thrown |-> TRUE, urls |-> <<>>, requested |-> rootRequest]
        ELSE IF sitemapResult.isIndex
        THEN [thrown |-> FALSE,
              urls |-> MapValues(ParseChildren(<<>>, sitemapResult.childSitemaps, 1,
                                               siteUrl, docs)),
              requested |-> rootRequest \cup
                            {sitemapResult.childSitemaps[i] :
                                i \in 1..Len(sitemapResult.childSitemaps)}]
        ELSE [thrown |-> FALSE, urls |-> sitemapResult.urls, requested |-> rootRequest]

ExtractIdle ==
    /\ epc = "idle" /\ eChildren = <<>> /\ eAllUrls = <<>> /\ eResult = <<>>
    /\ eError = NoString /\ eRequested = <<>>

\* extractUrls is called: await this.parseSitemap(this.options.sitemapUrl)
ExtractUrlsCall ==
    /\ epc = "call"
    /\ LET docs == SitemapDocs(optSitemapUrl, siteSitemap, siteBehaviour, siteChildren)
           sitemapResult == ParseSitemap(optSitemapUrl, optSiteUrl, docs)
       IN  /\ eRequested' = IF SitemapRequested(optSitemapUrl)
                             THEN Append(eRequested, optSitemapUrl) ELSE eRequested
           /\ IF sitemapResult.thrown
              THEN /\ epc' = "thrown"
                   /\ eError' = "NETWORK_ERROR"
                   /\ UNCHANGED <<eChildren, eAllUrls, eResult>>
              ELSE IF sitemapResult.isIndex
              THEN /\ epc' = "children"
                   /\ eChildren' = sitemapResult.childSitemaps
                   /\ eAllUrls' = <<>>
                   /\ UNCHANGED <<eResult, eError>>
              ELSE /\ epc' = "returned"
                   /\ eResult' = sitemapResult.urls
                   /\ UNCHANGED <<eChildren, eAllUrls, eError>>
    /\ UNCHANGED optVars
    /\ UNCHANGED notExtract

\* await this.parseSitemap(childSitemap) for the next child, inside its try
ExtractUrlsChild ==
    /\ epc = "children"
    /\ eChildren # <<>>
    /\ LET docs == SitemapDocs(optSitemapUrl, siteSitemap, siteBehaviour, siteChildren)
       IN  eAllUrls' = ParseChild(eAllUrls, Head(eChildren), optSiteUrl, docs)
    /\ eRequested' = Append(eRequested, Head(eChildren))
    /\ eChildren' = Tail(eChildren)
    /\ UNCHANGED <<epc, eResult, eError, optVars>>
    /\ UNCHANGED notExtract

\* return Array.from(allUrls.values())
ExtractUrlsReturn ==
    /\ epc = "children"
    /\ eChildren = <<>>
    /\ eResult' = MapValues(eAllUrls)
    /\ epc' = "returned"
    /\ UNCHANGED <<eChildren, eAllUrls, eError, eRequested, optVars>>
    /\ UNCHANGED notExtract

ExtractNext ==
    \/ ExtractUrlsCall
    \/ ExtractUrlsChild
    \/ ExtractUrlsReturn

\* enableRecursiveDiscovery off: the initial URLs, as they are
DiscoverWithoutRecursion(initialUrls) ==
    [i \in 1..Len(initialUrls) |->
        DiscoveredUrl(initialUrls[i].loc, 0, NoString, "sitemap", initialUrls[i].lastmod)]

RECURSIVE SeedDiscovered(_, _, _)
\* the loop over initialUrls that fills discovered (and toProcess, which
\* always holds the keys of discovered)
SeedDiscovered(m, initialUrls, i) ==
    IF i > Len(initialUrls) THEN m
    ELSE LET normalizedUrl == NormalizeUrl(initialUrls[i].loc)
         IN  SeedDiscovered(
                 MapSet(m, normalizedUrl,
                        DiscoveredUrl(normalizedUrl, 0, NoString, "sitemap",
                                      initialUrls[i].lastmod)),
                 initialUrls, i + 1)

\* extractLinksFromPage: a failed fetch gives no links; a page that is not
\* HTML has no anchors
ExtractLinksFromPageOneDeeper(behaviour, url, depth, maxLinksPerPage, siteUrl) ==
    LET fetched == SiteFetch(behaviour, SitemapUrl(url, NoString))
        hrefs   == IF fetched.kind = "response" /\ IsHtml(fetched.contentType)
                   THEN LinksOf(url) ELSE <<>>
        normal  == [i \in 1..Len(hrefs) |-> NormalizeUrl(hrefs[i])]
        links   == Slice0(SelectSeq(normal, LAMBDA h : IsInternalUrl(h, siteUrl) /\ h # url),
                          maxLinksPerPage)
    IN  [i \in 1..Len(links) |->
            DiscoveredUrl(links[i], depth + 1, url, "internal-link", NoString)]

ExtractLinksFromPage(behaviour, url, depth, maxLinksPerPage, siteUrl) ==
    LET fetched == SiteFetch(behaviour, SitemapUrl(url, NoString))
        hrefs   == IF fetched.kind = "response" /\ IsHtml(fetched.contentType)
                   THEN LinksOf(url) ELSE <<>>
        normal  == [i \in 1..Len(hrefs) |-> NormalizeUrl(hrefs[i])]
        links   == Slice0(SelectSeq(normal, LAMBDA h : IsInternalUrl(h, siteUrl) /\ h # url),
                          maxLinksPerPage)
    IN  [i \in 1..Len(links) |-> DiscoveredUrl(links[i], depth, url, "internal-link", NoString)]

RECURSIVE ExtractLinksFromPages(_, _, _, _, _, _)
\* extractLinksFromPages: the links of the pages, in the order in which the
\* pages' extractions complete
ExtractLinksFromPages(behaviour, order, i, depth, maxLinksPerPage, siteUrl) ==
    IF i > Len(order) THEN <<>>
    ELSE ExtractLinksFromPage(behaviour, order[i], depth, maxLinksPerPage, siteUrl)
            \o ExtractLinksFromPages(behaviour, order, i + 1, depth, maxLinksPerPage,
                                      siteUrl)

RECURSIVE AddNewUrls(_, _, _, _)
\* for (const newUrl of newUrls): only URLs not yet discovered are added
AddNewUrls(m, newUrls, i, siteUrl) ==
    IF i > Len(newUrls) THEN m
    ELSE LET normalizedUrl == NormalizeUrl(newUrls[i].url)
         IN  AddNewUrls(IF ~MapHas(m, normalizedUrl) /\ IsInternalUrl(normalizedUrl, siteUrl)
                        THEN MapSet(m, normalizedUrl, newUrls[i]) ELSE m,
                        newUrls, i + 1, siteUrl)

\* Array.from(toProcess).filter(url => discovered.get(url)?.depth === depth)
CurrentLevelUrlsAnyDepth(m, depth) == [i \in 1..Len(m) |-> m[i].key]

CurrentLevelUrls(m, depth) ==
    LET level == SelectSeq(m, LAMBDA kv : kv.value.depth = depth)
    IN  [i \in 1..Len(level) |-> level[i].key]

\* the orders in which a list's elements can complete
Orders(list) ==
    {[i \in 1..Len(list) |-> list[p[i]]] :
        p \in {q \in [1..Len(list) -> 1..Len(list)] :
                 \A i, j \in 1..Len(list) : q[i] = q[j] => i = j}}

(***************************************************************************)
(* sortUrls: lastmod descending, entries with a lastmod first, then by     *)
(* URL.  Array.prototype.sort is stable.                                   *)
(***************************************************************************)
CompareUrls(a, b) ==
    IF a.lastmod # NoString /\ b.lastmod # NoString
          /\ DateTime(a.lastmod) # DateTime(b.lastmod)
    THEN DateTime(b.lastmod) - DateTime(a.lastmod)
    ELSE IF a.lastmod # NoString /\ b.lastmod = NoString THEN -1
    ELSE IF a.lastmod = NoString /\ b.lastmod # NoString THEN 1
    ELSE LocRank(a.loc) - LocRank(b.loc)

\* e put into the sorted list after the entries that do not come after it
InsertSorted(sorted, e) ==
    LET before == {i \in 0..Len(sorted) : \A j \in 1..i : CompareUrls(sorted[j], e) <= 0}
        k      == CHOOSE i \in before : \A j \in before : j <= i
    IN  SubSeq(sorted, 1, k) \o <<e>> \o SubSeq(sorted, k + 1, Len(sorted))

RECURSIVE SortUrls(_)
SortUrls(list) ==
    IF Len(list) = 0 THEN <<>>
    ELSE InsertSorted(SortUrls(SubSeq(list, 1, Len(list) - 1)), list[Len(list)])

(***************************************************************************)
(* The assembled document.                                                 *)
(***************************************************************************)
Whitespace == {" ", "\n", "\t"}

RECURSIVE HashRun(_, _)
\* the number of '#' characters of s from position i on
HashRun(s, i) == IF i <= Len(s) /\ s[i] = "#" THEN 1 + HashRun(s, i + 1) ELSE 0

RECURSIVE DemoteFrom(_, _)
DemoteFrom(s, i) ==
    IF i > Len(s) THEN <<>>
    ELSE LET run == HashRun(s, i)
             heading == /\ (i = 1 \/ s[i - 1] = "\n")
                        /\ run >= 1 /\ run <= 5
                        /\ i + run <= Len(s)
                        /\ s[i + run] \in Whitespace
         IN  IF heading
             THEN <<"#">> \o SubSeq(s, i, i + run - 1) \o <<" ">> \o DemoteFrom(s, i + run + 1)
             ELSE <<s[i]>> \o DemoteFrom(s, i + 1)

\* content.replace(/^(#{1,5})\s/gm, '#$1 ')
DemoteHeadings(content) == DemoteFrom(content, 1)

\* one entry of generateTableOfContents: `- ${pageIndex} ${url} — ${title}`
TocEntry(result, pageIndex) ==
    [pageIndex |-> pageIndex, url |-> result.url, skipped |-> ~result.success,
     title |-> result.title]

\* one block of generatePagesContent
PageSection(result) ==
    IF ~result.success
    THEN [kind |-> "SKIPPED", title |-> result.title, url |-> result.url,
          body |-> IF result.error # <<>> THEN result.error ELSE Str_Unknown]
    ELSE [kind |-> "PAGE", title |-> result.title, url |-> result.url,
          body |-> DemoteHeadings(result.content)]

\* header, table of contents and pages section of the final content
AssembleDocument(processed) ==
    [pageCount |-> Len(processed),
     toc |-> [i \in 1..Len(processed) |-> TocEntry(processed[i], i)],
     pages |-> [i \in 1..Len(processed) |-> PageSection(processed[i])]]

NoDocument == [pageCount |-> NoNumber, toc |-> <<>>, pages |-> <<>>]

(***************************************************************************)
(* applyContentFiltering and the ContentFilter (content-filter.ts).  The   *)
(* configuration is the caller's contentFilter merged over the defaults;   *)
(* scores are in hundredths.                                               *)
(***************************************************************************)
Str_Title == <<"T", "i", "t", "l", "e">>

Str_Skipped == <<"S", "k", "i", "p", "p", "e", "d">>

Kw_404 == <<"4", "0", "4">>

Kw_NotFound == <<"n", "o", "t", " ", "f", "o", "u", "n", "d">>

Kw_Error == <<"e", "r", "r", "o", "r">>

Kw_Maintenance == <<"m", "a", "i", "n", "t", "e", "n", "a", "n", "c", "e">>

Kw_Documentation == <<"d", "o", "c", "u", "m", "e", "n", "t", "a", "t", "i", "o", "n">>

Kw_Guide == <<"g", "u", "i", "d", "e">>

Kw_Tutorial == <<"t", "u", "t", "o", "r", "i", "a", "l">>

Kw_API == <<"A", "P", "I">>

Kw_Reference == <<"r", "e", "f", "e", "r", "e", "n", "c", "e">>

Kw_HTTP == <<"H", "T", "T", "P">>

\* the characters of a page title
TitleChars(title) == IF title = "Skipped" THEN Str_Skipped ELSE Str_Title

UpperCase == <<"A", "B", "C", "D", "E", "F", "G", "H", "I", "J", "K", "L", "M",
               "N", "O", "P", "Q", "R", "S", "T", "U", "V", "W", "X", "Y", "Z">>

LowerCase == <<"a", "b", "c", "d", "e", "f", "g", "h", "i", "j", "k", "l", "m",
               "n", "o", "p", "q", "r", "s", "t", "u", "v", "w", "x", "y", "z">>

\* the lower-case letter of each upper-case letter
LowerOf ==
    [c \in {UpperCase[k] : k \in 1..26} |->
        LowerCase[CHOOSE k \in 1..26 : UpperCase[k] = c]]

\* s.toLowerCase()
ToLowerCase(s) ==
    [i \in 1..Len(s) |-> IF s[i] \in DOMAIN LowerOf THEN LowerOf[s[i]] ELSE s[i]]

\* s.includes(t)
Includes(s, t) ==
    \E i \in 1..(Len(s) - Len(t) + 1) : SubSeq(s, i, i + Len(t) - 1) = t

RECURSIVE CountMatches(_, _, _)
\* content.match(new RegExp(pattern, 'gi')): the number of matches from
\* position i on, for a pattern of plain lower-case characters
CountMatches(s, t, i) ==
    IF i + Len(t) - 1 > Len(s) THEN 0
    ELSE IF SubSeq(s, i, i + Len(t) - 1) = t THEN 1 + CountMatches(s, t, i + Len(t))
    ELSE CountMatches(s, t, i + 1)

\* (page.title + ' ' + page.content).toLowerCase()
PageText(page) == ToLowerCase(TitleChars(page.title) \o <<" ">> \o page.content)

ContentCategory(id, priority, urlPatterns, contentPatterns, maxPages, enabled) ==
    [id |-> id, priority |-> priority, urlPatterns |-> urlPatterns,
     contentPatterns |-> contentPatterns, maxPages |-> maxPages, enabled |-> enabled]

\* DEFAULT_FILTER_CONFIG's limits and keyword lists
DefaultMinContentLength == 100

DefaultMaxContentLength == 50000

DefaultPriorityKeywords == <<Kw_Documentation, Kw_Guide, Kw_Tutorial, Kw_API, Kw_Reference>>

DefaultExcludeKeywords == <<Kw_404, Kw_NotFound, Kw_Error, Kw_Maintenance>>

\* categories a caller configures: one for everything, and one for the API
\* pages with a limit of one page
GeneralCategory == ContentCategory("general", 2, {}, <<>>, NoNumber, TRUE)

ApiCategory == ContentCategory("api", 10, {"/a"}, <<Kw_HTTP>>, 1, TRUE)

ContentFilterConfig(categories, minContentLength, excludeKeywords) ==
    [categories |-> categories, defaultCategory |-> "general",
     minContentLength |-> minContentLength,
     maxContentLength |-> DefaultMaxContentLength,
     priorityKeywords |-> DefaultPriorityKeywords,
     excludeKeywords |-> excludeKeywords]

\* options.contentFilter = {}: no filtering
NoContentFilter == [categories |-> <<>>]

\* calculateCategoryScore
CalculateCategoryScore(page, category) ==
    10 * Cardinality({q \in category.urlPatterns : UrlIncludes(page.url, q)})
      + LET n == Len(category.contentPatterns)
            hits == [i \in 1..n |->
                        2 * CountMatches(PageText(page),
                                         ToLowerCase(category.contentPatterns[i]), 1)]
            sum[i \in 0..n] == IF i = 0 THEN 0 ELSE sum[i - 1] + hits[i]
        IN  sum[n]

RECURSIVE BestCategoryFrom(_, _, _, _, _)
\* the loop of findBestCategory: a category takes over on a strictly higher
\* score only
BestCategoryFrom(page, categories, i, bestCategory, bestScore) ==
    IF i > Len(categories) THEN bestCategory
    ELSE LET score == CalculateCategoryScore(page, categories[i])
         IN  IF categories[i].enabled /\ score > bestScore
             THEN BestCategoryFrom(page, categories, i + 1, categories[i], score)
             ELSE BestCategoryFrom(page, categories, i + 1, bestCategory, bestScore)

\* the start value of findBestCategory, whatever the scores
FindBestCategoryDefault(page, config) ==
    LET defaults == SelectSeq(config.categories, LAMBDA c : c.id = config.defaultCategory)
    IN  IF Len(defaults) > 0 THEN defaults[1] ELSE config.categories[1]

\* findBestCategory, for a configuration with at least one category
FindBestCategory(page, config) ==
    LET defaults == SelectSeq(config.categories, LAMBDA c : c.id = config.defaultCategory)
        start    == IF Len(defaults) > 0 THEN defaults[1] ELSE config.categories[1]
    IN  BestCategoryFrom(page, config.categories, 1, start, 0)

\* findMatchedKeywords
FindMatchedKeywords(page, config) ==
    SelectSeq(config.priorityKeywords,
              LAMBDA k : Includes(PageText(page), ToLowerCase(k)))

\* calculateRelevanceScore
CalculateRelevanceScore(page, category, config) ==
    LET score == 50 + 10 * Len(FindMatchedKeywords(page, config))
                    + (IF page.contentLength > 1000 THEN 10 ELSE 0)
                    + category.priority
    IN  IF score > 100 THEN 100 ELSE score

\* categorize
Categorize(page, config) ==
    LET category == FindBestCategory(page, config)
    IN  [url |-> page.url, title |-> page.title, content |-> page.content,
         success |-> page.success, error |-> page.error,
         contentLength |-> page.contentLength, statusCode |-> page.statusCode,
         skipReason |-> page.skipReason, truncated |-> page.truncated,
         originalLength |-> page.originalLength, lastmod |-> page.lastmod,
         language |-> page.language,
         category |-> category.id, categoryPriority |-> category.priority,
         relevanceScore |-> CalculateRelevanceScore(page, category, config),
         matchedKeywords |-> FindMatchedKeywords(page, config)]

\* every page passes
ShouldIncludePageAlways(page, config) == TRUE

\* shouldIncludePage; a limit of 0 is not applied
ShouldIncludePage(page, config) ==
    /\ ~(config.minContentLength # 0 /\ page.contentLength < config.minContentLength)
    /\ ~(config.maxContentLength # 0 /\ page.contentLength > config.maxContentLength)
    /\ \A i \in 1..Len(config.excludeKeywords) :
          ~Includes(PageText(page), ToLowerCase(config.excludeKeywords[i]))
    /\ \E i \in 1..Len(config.categories) :
          /\ config.categories[i].id = page.category
          /\ \A j \in 1..(i - 1) : config.categories[j].id # page.category
          /\ config.categories[i].enabled

\* comparePriority
ComparePriority(a, b) ==
    IF a.categoryPriority # b.categoryPriority THEN b.categoryPriority - a.categoryPriority
    ELSE IF a.relevanceScore # b.relevanceScore THEN b.relevanceScore - a.relevanceScore
    ELSE b.contentLength - a.contentLength

\* e put into the sorted list after the pages that do not come after it
InsertByPriority(sorted, e) ==
    LET before == {i \in 0..Len(sorted) : \A j \in 1..i : ComparePriority(sorted[j], e) <= 0}
        k      == CHOOSE i \in before : \A j \in before : j <= i
    IN  SubSeq(sorted, 1, k) \o <<e>> \o SubSeq(sorted, k + 1, Len(sorted))

RECURSIVE SortByPriority(_)
SortByPriority(pages) ==
    IF Len(pages) = 0 THEN <<>>
    ELSE InsertByPriority(SortByPriority(SubSeq(pages, 1, Len(pages) - 1)),
                          pages[Len(pages)])

\* ContentFilter.filter: categorize, filter, sort
Filter(pages, config) ==
    SortByPriority(SelectSeq([i \in 1..Len(pages) |-> Categorize(pages[i], config)],
                             LAMBDA q : ShouldIncludePage(q, config)))

RECURSIVE CategoryOrder(_, _, _)
\* the keys of groupByCategory's object, in the order of their first page
CategoryOrder(pages, i, seen) ==
    IF i > Len(pages) THEN seen
    ELSE CategoryOrder(pages, i + 1,
                       IF \E k \in 1..Len(seen) : seen[k] = pages[i].category
                       THEN seen ELSE Append(seen, pages[i].category))

RECURSIVE CategoryLimitsFrom(_, _, _, _)
\* applyCategoryLimits, category by category
CategoryLimitsFrom(pages, order, k, config) ==
    IF k > Len(order) THEN <<>>
    ELSE LET categoryPages == SelectSeq(pages, LAMBDA q : q.category = order[k])
             found    == SelectSeq(config.categories, LAMBDA c : c.id = order[k])
             maxPages == IF Len(found) > 0 /\ found[1].maxPages # NoNumber
                         THEN found[1].maxPages ELSE Len(categoryPages)
         IN  Slice0(categoryPages, maxPages)
                \o CategoryLimitsFrom(pages, order, k + 1, config)

\* every page kept
ApplyCategoryLimitsNone(pages, config) == pages

\* applyCategoryLimits
ApplyCategoryLimits(pages, config) ==
    CategoryLimitsFrom(pages, CategoryOrder(pages, 1, <<>>), 1, config)

\* applyContentFiltering
ApplyContentFiltering(pages, contentFilter) ==
    IF contentFilter = NoContentFilter THEN pages
    ELSE ApplyCategoryLimits(Filter(pages, contentFilter), contentFilter)

\* the contentFilter options of the model
ContentFilters ==
    {ContentFilterConfig(<<GeneralCategory>>, 0, <<>>),
     ContentFilterConfig(<<GeneralCategory>>, DefaultMinContentLength,
                         DefaultExcludeKeywords),
     ContentFilterConfig(<<GeneralCategory>>, 0, DefaultExcludeKeywords),
     ContentFilterConfig(<<GeneralCategory, ApiCategory>>, 1, <<>>)}

\* the sitemap part of a specification that is not about the site
SiteIdle ==
    /\ optSiteUrl = SiteUrl /\ optSitemapUrl = RootSitemap
    /\ optContentFilter = NoContentFilter /\ siteChildren = <<>>
    /\ siteLinks = DefaultLinks

(***************************************************************************)
(* normalizeUrl, applied once and then to its own result.                  *)
(***************************************************************************)
NormIdle ==
    /\ nUrl = RelativeText(NoString) /\ nKeep = <<>> /\ npc = "idle"
    /\ nOnce = RelativeText(NoString) /\ nTwice = RelativeText(NoString)

\* const once = normalizeUrl(url)
NormalizeCall ==
    /\ npc = "call"
    /\ nOnce' = NormalizeUrlText(nUrl, nKeep)
    /\ npc' = "once"
    /\ UNCHANGED <<nUrl, nKeep, nTwice, optVars>>
    /\ UNCHANGED notNorm

\* normalizeUrl(once)
NormalizeAgain ==
    /\ npc = "once"
    /\ nTwice' = NormalizeUrlText(nOnce, nKeep)
    /\ npc' = "twice"
    /\ UNCHANGED <<nUrl, nKeep, nOnce, optVars>>
    /\ UNCHANGED notNorm

NormNext ==
    \/ NormalizeCall
    \/ NormalizeAgain

(***************************************************************************)
(* generate(), stage by stage; gpc is the stage about to run.              *)
(***************************************************************************)
GenIdle ==
    /\ userMaxPages = 0 /\ optMaxPages = 0 /\ optOutputFormat = "full"
    /\ optFormatLimits = DefaultFormatLimits /\ optRecursive = FALSE
    /\ optMaxDepth = 0 /\ optMaxLinksPerPage = 0
    /\ optInclude = {} /\ optExclude = {}
    /\ siteSitemap = <<>> /\ siteBehaviour = <<>>
    /\ gpc = "idle" /\ sitemapUrls = <<>> /\ filteredUrls = <<>>
    /\ discovered = <<>> /\ dDepth = 0 /\ discoveredUrls = <<>>
    /\ sortedUrls = <<>> /\ pageResults = <<>> /\ filteredResults = <<>>
    /\ document = NoDocument /\ gError = NoString /\ requested = {}

\* new LLMSGenerator(userOptions): mergeWithDefaults throws INVALID_URL when
\* no siteUrl is set
GenConstruct ==
    /\ gpc = "construct"
    /\ IF optSiteUrl = NoString
       THEN gpc' = "failed" /\ gError' = "INVALID_URL"
       ELSE gpc' = "start" /\ UNCHANGED gError
    /\ UNCHANGED <<userMaxPages, optMaxPages, optOutputFormat, optFormatLimits,
                   optRecursive, optMaxDepth, optMaxLinksPerPage, optInclude, optExclude,
                   siteSitemap, siteBehaviour, sitemapUrls, filteredUrls, discovered,
                   dDepth, discoveredUrls, sortedUrls, pageResults, filteredResults,
                   document, requested>>
    /\ UNCHANGED <<limitVars, optVars>>
    /\ UNCHANGED notGen

\* this.applyFormatLimits()
GenApplyFormatLimits ==
    /\ gpc = "start"
    /\ LET now == ApplyFormatLimits(
                      Limits(optMaxPages, optMaxCharsPerPage, optMaxTotalChars),
                      optFormatLimits, optOutputFormat)
       IN  /\ optMaxPages' = now.maxPages
           /\ optMaxCharsPerPage' = now.maxCharsPerPage
           /\ optMaxTotalChars' = now.maxTotalChars
    /\ gpc' = "extract"
    /\ UNCHANGED <<userMaxPages, optOutputFormat, optFormatLimits, optRecursive,
                   optMaxDepth, optMaxLinksPerPage, optInclude, optExclude,
                   siteSitemap, siteBehaviour, sitemapUrls, filteredUrls, discovered,
                   dDepth, discoveredUrls, sortedUrls, pageResults, filteredResults,
                   document, gError,
                   requested>>
    /\ UNCHANGED <<lInput, lpc, processedResults, statsGlobalLimitReached,
                   statsTruncatedPages, optVars>>
    /\ UNCHANGED notGen

\* await this.extractUrls(): the sitemaps are fetched and parsed, or the
\* run fails with the NETWORK_ERROR parseSitemap threw for the root sitemap
GenExtractUrls ==
    /\ gpc = "extract"
    /\ LET out == ExtractUrls(optSitemapUrl, optSiteUrl,
                              SitemapDocs(optSitemapUrl, siteSitemap, siteBehaviour,
                                          siteChildren))
       IN  /\ requested' = requested \cup out.requested
           /\ IF ~out.thrown
              THEN /\ sitemapUrls' = out.urls
                   /\ gpc' = "filter"
                   /\ UNCHANGED gError
              ELSE /\ gError' = "NETWORK_ERROR"
                   /\ gpc' = "failed"
                   /\ UNCHANGED sitemapUrls
    /\ UNCHANGED <<userMaxPages, optMaxPages, optOutputFormat, optFormatLimits,
                   optRecursive, optMaxDepth, optMaxLinksPerPage, optInclude, optExclude,
                   siteSitemap, siteBehaviour, filteredUrls, discovered,
                   dDepth, discoveredUrls, sortedUrls, pageResults, filteredResults,
                   document>>
    /\ UNCHANGED <<limitVars, optVars>>
    /\ UNCHANGED notGen

\* this.filterUrls(urls)
GenFilterUrls ==
    /\ gpc = "filter"
    /\ filteredUrls' = FilterUrls(sitemapUrls, optInclude, optExclude, optMaxPages,
                                  optSiteUrl)
    /\ gpc' = "discover"
    /\ UNCHANGED <<userMaxPages, optMaxPages, optOutputFormat, optFormatLimits,
                   optRecursive, optMaxDepth, optMaxLinksPerPage, optInclude, optExclude,
                   siteSitemap, siteBehaviour, sitemapUrls, discovered,
                   dDepth, discoveredUrls, sortedUrls, pageResults, filteredResults,
                   document, gError,
                   requested>>
    /\ UNCHANGED <<limitVars, optVars>>
    /\ UNCHANGED notGen

\* discoverUrlsRecursively is entered: without recursion it returns at once
GenDiscoverCall ==
    /\ gpc = "discover"
    /\ IF ~optRecursive
       THEN /\ discoveredUrls' = DiscoverWithoutRecursion(filteredUrls)
            /\ gpc' = "sort"
            /\ UNCHANGED <<discovered, dDepth>>
       ELSE /\ discovered' = SeedDiscovered(<<>>, filteredUrls, 1)
            /\ dDepth' = 0
            /\ gpc' = "discovering"
            /\ UNCHANGED discoveredUrls
    /\ UNCHANGED <<userMaxPages, optMaxPages, optOutputFormat, optFormatLimits,
                   optRecursive, optMaxDepth, optMaxLinksPerPage, optInclude, optExclude,
                   siteSitemap, siteBehaviour, sitemapUrls, filteredUrls,
                   sortedUrls, pageResults, filteredResults, document, gError,
                   requested>>
    /\ UNCHANGED <<limitVars, optVars>>
    /\ UNCHANGED notGen

\* one pass of `for (let depth = 0; depth < maxRecursiveDepth; depth++)`
GenDiscoverRound ==
    /\ gpc = "discovering"
    /\ dDepth < optMaxDepth
    /\ CurrentLevelUrls(discovered, dDepth) # <<>>
    /\ \E order \in Orders(CurrentLevelUrls(discovered, dDepth)) :
          discovered' = AddNewUrls(discovered,
                                   ExtractLinksFromPages(siteBehaviour, order, 1,
                                                         dDepth + 1, optMaxLinksPerPage,
                                                         optSiteUrl),
                                   1, optSiteUrl)
    /\ requested' = requested \cup
                        {u \in Range(CurrentLevelUrls(discovered, dDepth)) : ParsesAsUrl(u)}
    /\ dDepth' = dDepth + 1
    /\ UNCHANGED <<userMaxPages, optMaxPages, optOutputFormat, optFormatLimits,
                   optRecursive, optMaxDepth, optMaxLinksPerPage, optInclude, optExclude,
                   siteSitemap, siteBehaviour, sitemapUrls, filteredUrls, gpc,
                   discoveredUrls, sortedUrls, pageResults, filteredResults,
                   document, gError>>
    /\ UNCHANGED <<limitVars, optVars>>
    /\ UNCHANGED notGen

\* the loop ends (depth bound, or no URL at the current depth)
GenDiscoverReturn ==
    /\ gpc = "discovering"
    /\ ~(dDepth < optMaxDepth /\ CurrentLevelUrls(discovered, dDepth) # <<>>)
    /\ discoveredUrls' = MapValues(discovered)
    /\ gpc' = "sort"
    /\ UNCHANGED <<userMaxPages, optMaxPages, optOutputFormat, optFormatLimits,
                   optRecursive, optMaxDepth, optMaxLinksPerPage, optInclude, optExclude,
                   siteSitemap, siteBehaviour, sitemapUrls, filteredUrls, discovered,
                   dDepth, sortedUrls, pageResults, filteredResults, document, gError,
                   requested>>
    /\ UNCHANGED <<limitVars, optVars>>
    /\ UNCHANGED notGen

\* this.sortUrls(discoveredUrls.map(...))
GenSortUrls ==
    /\ gpc = "sort"
    /\ sortedUrls' = SortUrls([i \in 1..Len(discoveredUrls) |->
                                 SitemapUrl(discoveredUrls[i].url, discoveredUrls[i].lastmod)])
    /\ gpc' = "crawl"
    /\ UNCHANGED <<userMaxPages, optMaxPages, optOutputFormat, optFormatLimits,
                   optRecursive, optMaxDepth, optMaxLinksPerPage, optInclude, optExclude,
                   siteSitemap, siteBehaviour, sitemapUrls, filteredUrls, discovered,
                   dDepth, discoveredUrls, pageResults, filteredResults, document, gError,
                   requested>>
    /\ UNCHANGED <<limitVars, optVars>>
    /\ UNCHANGED notGen

\* await this.crawlPages(sortedUrls): one PageResult per URL, in the order
\* of the list
GenCrawlPages ==
    /\ gpc = "crawl"
    /\ pageResults' = [i \in 1..Len(sortedUrls) |->
                          CrawlSinglePage(sortedUrls[i],
                                          SiteFetch(siteBehaviour, sortedUrls[i]),
                                          optTransformer)]
    /\ requested' = requested \cup
                        {sortedUrls[i].loc : i \in {j \in 1..Len(sortedUrls) :
                                                        ParsesAsUrl(sortedUrls[j].loc)}}
    /\ gpc' = "contentfilter"
    /\ UNCHANGED <<userMaxPages, optMaxPages, optOutputFormat, optFormatLimits,
                   optRecursive, optMaxDepth, optMaxLinksPerPage, optInclude, optExclude,
                   siteSitemap, siteBehaviour, sitemapUrls, filteredUrls, discovered,
                   dDepth, discoveredUrls, sortedUrls, filteredResults, document, gError>>
    /\ UNCHANGED <<limitVars, optVars>>
    /\ UNCHANGED notGen

\* this.applyContentFiltering(pageResults)
GenContentFiltering ==
    /\ gpc = "contentfilter"
    /\ filteredResults' = ApplyContentFiltering(pageResults, optContentFilter)
    /\ gpc' = "limits"
    /\ UNCHANGED <<userMaxPages, optMaxPages, optOutputFormat, optFormatLimits,
                   optRecursive, optMaxDepth, optMaxLinksPerPage, optInclude, optExclude,
                   siteSitemap, siteBehaviour, sitemapUrls, filteredUrls, discovered,
                   dDepth, discoveredUrls, sortedUrls, pageResults, document, gError,
                   requested>>
    /\ UNCHANGED <<limitVars, optVars>>
    /\ UNCHANGED notGen

\* this.applyCharacterLimits(filteredResults, stats)
GenCharacterLimits ==
    /\ gpc = "limits"
    /\ LET out == ApplyCharacterLimits(filteredResults, optMaxCharsPerPage, optMaxTotalChars)
       IN  /\ processedResults' = out.processedResults
           /\ statsGlobalLimitReached' = out.globalLimitReached
           /\ statsTruncatedPages' = out.truncatedPages
    /\ gpc' = "assemble"
    /\ UNCHANGED <<userMaxPages, optMaxPages, optOutputFormat, optFormatLimits,
                   optRecursive, optMaxDepth, optMaxLinksPerPage, optInclude, optExclude,
                   siteSitemap, siteBehaviour, sitemapUrls, filteredUrls, discovered,
                   dDepth, discoveredUrls, sortedUrls, pageResults, filteredResults,
                   document, gError,
                   requested>>
    /\ UNCHANGED <<optMaxCharsPerPage, optMaxTotalChars, lInput, lpc, optVars>>
    /\ UNCHANGED notGen

\* header, table of contents, pages: the final content
GenAssemble ==
    /\ gpc = "assemble"
    /\ document' = AssembleDocument(processedResults)
    /\ gpc' = "done"
    /\ UNCHANGED <<userMaxPages, optMaxPages, optOutputFormat, optFormatLimits,
                   optRecursive, optMaxDepth, optMaxLinksPerPage, optInclude, optExclude,
                   siteSitemap, siteBehaviour, sitemapUrls, filteredUrls, discovered,
                   dDepth, discoveredUrls, sortedUrls, pageResults, filteredResults,
                   gError,
                   requested>>
    /\ UNCHANGED <<limitVars, optVars>>
    /\ UNCHANGED notGen

(***************************************************************************)
(* The specifications.                                                     *)
(***************************************************************************)
\* the sequences over S of length at most n
SeqsUpTo(S, n) == UNION {[1..k -> S] : k \in 0..n}

\* crawlSinglePage on one URL of the site
InitFetch ==
    /\ optRetries \in 1..MaxRetriesOpt
    /\ optTransformer \in Transformers
    /\ fEntry \in Entries
    /\ fpc = "call" /\ fAttempt = 0 /\ fIssued = 0
    /\ fLog = <<>> /\ fDelays = <<>> /\ fFetch = NoFetch /\ fPage = NoPage
    /\ fExtractCalls = 0
    /\ SiteIdle /\ CrawlIdle /\ LimitsIdle /\ GenIdle /\ ExtractIdle /\ NormIdle /\ FilterIdle
    /\ FallbackIdle /\ LinksIdle /\ ToolsIdle

SpecFetch == InitFetch /\ [][FetchNext]_vars

\* crawlPages on a URL list
InitCrawl ==
    /\ optRetries = DefaultRetries
    /\ optTransformer \in Transformers
    /\ optConcurrency \in 1..MaxConcurrency
    /\ urls \in SeqsUpTo(PoolEntries, MaxUrls)
    /\ cpc = "call" /\ currentIndex = 0
    /\ results = <<>> /\ wpc = <<>> /\ widx = <<>> /\ claimed = <<>>
    /\ completion = <<>> /\ returned = <<>>
    /\ SiteIdle /\ FetchIdle /\ LimitsIdle /\ GenIdle /\ ExtractIdle /\ NormIdle /\ FilterIdle
    /\ FallbackIdle /\ LinksIdle /\ ToolsIdle

SpecCrawl == InitCrawl /\ [][CrawlNext]_vars

\* the pages applyCharacterLimits may be given: what crawlSinglePage returns
LimitPages ==
    {CrawlSinglePage(SitemapUrl(LocA, "2024-01-02"), f, "identity") :
        f \in {Response(200, "text/html", Html(10 + n, Text(n))) : n \in 0..MaxContentLen}
              \cup {Response(200, "application/json", NoBody),
                    TransportError("TypeError", Str_FetchFailed)}}

InitLimits ==
    /\ optRetries = DefaultRetries
    /\ optTransformer = "identity"
    /\ optMaxCharsPerPage \in 0..MaxPerPageOpt
    /\ optMaxTotalChars \in 0..MaxTotalOpt
    /\ lInput \in SeqsUpTo(LimitPages, MaxLimitPages)
    /\ lpc = "call"
    /\ processedResults = <<>> /\ statsGlobalLimitReached = FALSE
    /\ statsTruncatedPages = 0
    /\ SiteIdle /\ FetchIdle /\ CrawlIdle /\ GenIdle /\ ExtractIdle /\ NormIdle /\ FilterIdle
    /\ FallbackIdle /\ LinksIdle /\ ToolsIdle

LimitsNext == ApplyCharacterLimitsCall

SpecLimits == InitLimits /\ [][LimitsNext]_vars

\* a root sitemap that is an index, and one mistaken for one
IndexDocuments ==
    {<<SitemapBlock(ChildSitemap1, NoString), SitemapBlock(ChildSitemap2, "2024-01-01")>>,
     <<UrlBlock(LocA, "2024-01-02"), UrlBlock(LocFeed, NoString)>>}

\* the child sitemaps the site of the pipeline serves
ChildDocuments ==
    {[u \in {ChildSitemap1, ChildSitemap2} |->
         IF u = ChildSitemap1
         THEN Served(<<UrlBlock(LocA, "2024-01-02"), UrlBlock(LocB, "2024-01-01")>>)
         ELSE Served(<<UrlBlock(LocA, "2024-01-01"), UrlBlock(LocC, NoString)>>)],
     [u \in {ChildSitemap1, ChildSitemap2} |->
         IF u = ChildSitemap1 THEN NotServed("down")
         ELSE Served(<<UrlBlock(LocC, NoString)>>)]}

\* the options a caller leaves at their defaults
DefaultLimits ==
    /\ userMaxPages = NoNumber
    /\ optOutputFormat = "full" /\ optFormatLimits = DefaultFormatLimits
    /\ optInclude = {} /\ optExclude = {}

DefaultDiscovery ==
    /\ optRecursive \in BOOLEAN
    /\ optMaxDepth = IF optRecursive THEN 1 ELSE DefaultMaxRecursiveDepth
    /\ optMaxLinksPerPage = DefaultMaxLinksPerPage

\* generate() on a site: the caller varies the limits, the discovery and the
\* URL patterns; or the transformer and the content filter; or the site URL;
\* or the site has a sitemap index
Init ==
    /\ optRetries = DefaultRetries
    /\ optMaxCharsPerPage = DefaultMaxCharsPerPage
    /\ optMaxTotalChars = DefaultMaxTotalChars
    /\ siteBehaviour \in SiteBehaviours
    /\ \/ /\ optTransformer = "identity"
          /\ SiteIdle
          /\ userMaxPages \in (0..MaxPagesOpt) \cup {NoNumber}
          /\ \E p \in {<<f, DefaultFormatLimits>> : f \in Formats}
                        \cup {<<"full", EmptyFormatLimits>>} :
                optOutputFormat = p[1] /\ optFormatLimits = p[2]
          /\ optRecursive \in BOOLEAN
          /\ IF optRecursive
             THEN /\ optMaxDepth \in 1..MaxDepthOpt
                  /\ optMaxLinksPerPage \in {1, DefaultMaxLinksPerPage}
             ELSE /\ optMaxDepth = DefaultMaxRecursiveDepth
                  /\ optMaxLinksPerPage = DefaultMaxLinksPerPage
          /\ \E p \in {<<{}, {}>>, <<{"/a"}, {}>>, <<{"site.test"}, {"/b"}>>} :
                optInclude = p[1] /\ optExclude = p[2]
          /\ siteSitemap \in SeqsUpTo(SitemapEntries, MaxSitemapUrls)
       \/ /\ optTransformer \in {"identity", "throw"}
          /\ optSiteUrl = SiteUrl /\ optSitemapUrl = RootSitemap
          /\ siteChildren = <<>> /\ siteLinks = DefaultLinks
          /\ optContentFilter \in ContentFilters \cup {NoContentFilter}
          /\ optTransformer = "identity" => optContentFilter # NoContentFilter
          /\ DefaultLimits /\ DefaultDiscovery
          /\ siteSitemap \in SeqsUpTo(SitemapEntries, MaxSitemapUrls)
       \/ /\ optTransformer = "identity"
          /\ optSiteUrl \in {NoString, BareSiteUrl}
          /\ optSitemapUrl \in {DefaultSitemapUrl(optSiteUrl), RootSitemap}
          /\ optContentFilter = NoContentFilter
          /\ siteChildren \in ChildDocuments /\ siteLinks = DefaultLinks
          /\ DefaultLimits /\ DefaultDiscovery
          /\ siteSitemap \in SeqsUpTo(SitemapEntries, 1) \cup IndexDocuments
       \/ /\ optTransformer = "identity"
          /\ optSiteUrl = SiteUrl /\ optSitemapUrl = RootSitemap
          /\ optContentFilter = NoContentFilter
          /\ siteChildren \in ChildDocuments /\ siteLinks = DefaultLinks
          /\ DefaultLimits /\ DefaultDiscovery
          /\ siteSitemap \in IndexDocuments
    /\ optMaxPages = IF userMaxPages = NoNumber THEN DefaultMaxPages ELSE userMaxPages
    /\ gpc = "construct" /\ sitemapUrls = <<>> /\ filteredUrls = <<>>
    /\ discovered = <<>> /\ dDepth = 0 /\ discoveredUrls = <<>>
    /\ sortedUrls = <<>> /\ pageResults = <<>> /\ filteredResults = <<>>
    /\ document = NoDocument /\ gError = NoString /\ requested = {}
    /\ lInput = <<>> /\ lpc = "idle"
    /\ processedResults = <<>> /\ statsGlobalLimitReached = FALSE
    /\ statsTruncatedPages = 0
    /\ FetchIdle /\ CrawlIdle /\ ExtractIdle /\ NormIdle /\ FilterIdle
    /\ FallbackIdle /\ LinksIdle /\ ToolsIdle

Next ==
    \/ GenConstruct
    \/ GenApplyFormatLimits
    \/ GenExtractUrls
    \/ GenFilterUrls
    \/ GenDiscoverCall
    \/ GenDiscoverRound
    \/ GenDiscoverReturn
    \/ GenSortUrls
    \/ GenCrawlPages
    \/ GenContentFiltering
    \/ GenCharacterLimits
    \/ GenAssemble

Spec == Init /\ [][Next]_vars

\* discoverUrlsRecursively, from its call to its return
DiscoverNext ==
    \/ GenDiscoverCall
    \/ GenDiscoverRound
    \/ GenDiscoverReturn

\* discoverUrlsRecursively on a list of initial URLs (sitemap entries, or
\* the site URL filterUrls falls back to), on a site with a link graph
InitDiscover ==
    /\ optRetries = DefaultRetries
    /\ optTransformer = "identity"
    /\ optSiteUrl = SiteUrl /\ optSitemapUrl = RootSitemap
    /\ optContentFilter = NoContentFilter /\ siteChildren = <<>>
    /\ siteLinks \in LinkGraphs
    /\ siteBehaviour \in SiteBehaviours
    /\ siteSitemap = <<>>
    /\ optRecursive \in BOOLEAN
    /\ optMaxDepth \in 0..MaxDepthOpt
    /\ optMaxLinksPerPage \in {1, DefaultMaxLinksPerPage}
    /\ filteredUrls \in SeqsUpTo(Entries \cup {SitemapUrl(SiteUrl, NoString)},
                                 MaxSitemapUrls)
    /\ userMaxPages = NoNumber /\ optMaxPages = DefaultMaxPages
    /\ optOutputFormat = "full" /\ optFormatLimits = DefaultFormatLimits
    /\ optInclude = {} /\ optExclude = {}
    /\ gpc = "discover" /\ sitemapUrls = <<>>
    /\ discovered = <<>> /\ dDepth = 0 /\ discoveredUrls = <<>>
    /\ sortedUrls = <<>> /\ pageResults = <<>> /\ filteredResults = <<>>
    /\ document = NoDocument /\ gError = NoString /\ requested = {}
    /\ FetchIdle /\ CrawlIdle /\ LimitsIdle /\ ExtractIdle /\ NormIdle /\ FilterIdle
    /\ FallbackIdle /\ LinksIdle /\ ToolsIdle

SpecDiscover == InitDiscover /\ [][DiscoverNext]_vars

\* the blocks a child sitemap may hold: pages (one of them listed with two
\* dates, one of another host, one with a URL ending in .xml) and a further
\* sitemap
ChildBlocks ==
    {UrlBlock(LocA, "2024-01-02"), UrlBlock(LocA, "2024-01-01"),
     UrlBlock(LocB, "2024-01-01"), UrlBlock(LocExternal, NoString),
     UrlBlock(LocFeed, NoString), SitemapBlock(ChildSitemap3, NoString)}

\* what the site may serve at the URL of a child sitemap
ChildAnswers ==
    {Served(xml) : xml \in SeqsUpTo(ChildBlocks, MaxChildUrls)}
        \cup {NotServed("down"), NotServed("404")}

\* the blocks of a root sitemap
RootBlocks ==
    {SitemapBlock(ChildSitemap1, NoString), SitemapBlock(ChildSitemap2, "2024-01-01"),
     UrlBlock(LocC, NoString)}

\* extractUrls on a site with a root sitemap and child sitemaps
InitExtract ==
    /\ optRetries = DefaultRetries
    /\ optTransformer = "identity"
    /\ optSiteUrl \in {SiteUrl, BareSiteUrl}
    /\ optSitemapUrl = RootSitemap
    /\ optContentFilter = NoContentFilter
    /\ siteSitemap \in SeqsUpTo(RootBlocks, MaxRootBlocks)
    /\ \E c1, c2 \in ChildAnswers :
          siteChildren = [u \in {ChildSitemap1, ChildSitemap2, ChildSitemap3} |->
                             CASE u = ChildSitemap1 -> c1
                               [] u = ChildSitemap2 -> c2
                               [] OTHER -> Served(<<UrlBlock(LocC, NoString)>>)]
    /\ siteBehaviour \in {b \in SiteBehaviours : b[LocA] = "ok"}
    /\ siteLinks = DefaultLinks
    /\ epc = "call" /\ eChildren = <<>> /\ eAllUrls = <<>> /\ eResult = <<>>
    /\ eError = NoString /\ eRequested = <<>>
    /\ userMaxPages = 0 /\ optMaxPages = 0 /\ optOutputFormat = "full"
    /\ optFormatLimits = DefaultFormatLimits /\ optRecursive = FALSE
    /\ optMaxDepth = 0 /\ optMaxLinksPerPage = 0
    /\ optInclude = {} /\ optExclude = {}
    /\ gpc = "idle" /\ sitemapUrls = <<>> /\ filteredUrls = <<>>
    /\ discovered = <<>> /\ dDepth = 0 /\ discoveredUrls = <<>>
    /\ sortedUrls = <<>> /\ pageResults = <<>> /\ filteredResults = <<>>
    /\ document = NoDocument /\ gError = NoString /\ requested = {}
    /\ FetchIdle /\ CrawlIdle /\ LimitsIdle /\ NormIdle /\ FilterIdle
    /\ FallbackIdle /\ LinksIdle /\ ToolsIdle

SpecExtract == InitExtract /\ [][ExtractNext]_vars

\* the values a query parameter may be written with
ParamValues == {"1", "x%20y", "x+y", "%2541", "%41"}

ParamNames == {"a", "b"}

\* the texts normalizeUrl may be given
UrlTexts ==
    {UrlText(host, path, query, fragment) :
        host \in {"site.test", "SITE.test", "other.test"},
        path \in {NoString, "/", "/a"},
        query \in {NoQuery} \cup
                  {Query(q) : q \in SeqsUpTo({Param(n, v) : n \in ParamNames,
                                                            v \in ParamValues},
                                             MaxQueryParams)},
        fragment \in {NoFragment, Fragment(NoString), Fragment("top")}}
        \cup {RelativeText("site.test"), RelativeText("/a?b=1#top")}

InitNorm ==
    /\ optRetries = DefaultRetries
    /\ optTransformer = "identity"
    /\ nUrl \in UrlTexts
    /\ nKeep \in {<<>>, <<"a">>, <<"b", "a">>, <<"a", "a">>, <<"c">>}
    /\ npc = "call"
    /\ nOnce = RelativeText(NoString) /\ nTwice = RelativeText(NoString)
    /\ SiteIdle /\ FetchIdle /\ CrawlIdle /\ LimitsIdle /\ GenIdle /\ ExtractIdle
    /\ FilterIdle
    /\ FallbackIdle /\ LinksIdle /\ ToolsIdle

SpecNorm == InitNorm /\ [][NormNext]_vars

(***************************************************************************)
(* ContentFilter: filter, then applyCategoryLimits, on given pages.        *)
(***************************************************************************)
\* configurations a caller passes to new ContentFilter(config): every field
\* given, so that DEFAULT_FILTER_CONFIG fills in nothing
FilterConfig(categories, defaultCategory, minContentLength, maxContentLength, excludeKeywords) ==
    [categories |-> categories, defaultCategory |-> defaultCategory,
     minContentLength |-> minContentLength,
     maxContentLength |-> maxContentLength,
     priorityKeywords |-> DefaultPriorityKeywords,
     excludeKeywords |-> excludeKeywords]

\* further categories: one of the priority of the API category and without a
\* limit, one that matches the API pages by URL only, a disabled one, and one
\* of a negative priority
GuidesCategory == ContentCategory("guides", 10, {"/b"}, <<Kw_Guide>>, NoNumber, TRUE)

ReferenceCategory == ContentCategory("reference", 9, {"/a"}, <<>>, 2, TRUE)

BlogCategory == ContentCategory("blog", 30, {"/c"}, <<>>, NoNumber, FALSE)

LegacyCategory == ContentCategory("legacy", 0 - 60, {"/c"}, <<>>, NoNumber, TRUE)

\* minContentLength and maxContentLength: no minimum, both limits on the
\* scale of the model's pages, and no maximum
ContentLengthLimits ==
    {<<0, DefaultMaxContentLength>>, <<2, 4>>, <<2, 0>>}

\* the configurations of the model: the limits and the exclude keywords with
\* two category lists, and the other category lists, also with a
\* defaultCategory that names no category, without limits
FilterConfigs ==
    {FilterConfig(c, "general", l[1], l[2], x) :
        c \in {<<GeneralCategory, ApiCategory>>,
               <<GuidesCategory, ApiCategory, GeneralCategory>>},
        l \in ContentLengthLimits, x \in {<<>>, <<Kw_Error>>}}
    \cup
    {FilterConfig(c, "general", 0, DefaultMaxContentLength, <<>>) :
        c \in {<<GeneralCategory>>,
               <<ApiCategory, GuidesCategory, GeneralCategory>>,
               <<ReferenceCategory, ApiCategory, GeneralCategory>>,
               <<BlogCategory, GeneralCategory>>,
               <<BlogCategory, LegacyCategory, GeneralCategory>>}}
    \cup
    {FilterConfig(c, "other", 0, DefaultMaxContentLength, <<>>) :
        c \in {<<ReferenceCategory, ApiCategory, GeneralCategory>>,
               <<BlogCategory, GeneralCategory>>}}

\* a successful PageResult; a long page is given by the first characters of
\* its content and its length
FilterPage(url, content, contentLength) ==
    [url |-> url, title |-> "Title", content |-> content,
     success |-> TRUE, error |-> <<>>,
     contentLength |-> contentLength, statusCode |-> 200,
     skipReason |-> <<>>,
     truncated |-> FALSE, originalLength |-> contentLength,
     lastmod |-> NoString, language |-> NoString]

FilterPages ==
    {FilterPage(LocA, Kw_HTTP, 4),
     FilterPage(LocA, Text(1), 1),
     FilterPage(LocB, Kw_Guide, 1001),
     FilterPage(LocB, Text(2), 2),
     FilterPage(LocC, Kw_Error, 5),
     FilterPage(LocC, Text(3), 3)}

MaxFilterPages == 3

\* const filtered = contentFilter.filter(pages)
FilterCall ==
    /\ cfpc = "call"
    /\ cfCategorized' = [i \in 1..Len(cfPages) |-> Categorize(cfPages[i], cfConfig)]
    /\ cfFiltered' = Filter(cfPages, cfConfig)
    /\ cfpc' = "filtered"
    /\ UNCHANGED <<cfConfig, cfPages, cfLimited>>
    /\ UNCHANGED <<optVars, notFilter>>

\* contentFilter.applyCategoryLimits(filtered)
CategoryLimitsCall ==
    /\ cfpc = "filtered"
    /\ cfLimited' = ApplyCategoryLimits(cfFiltered, cfConfig)
    /\ cfpc' = "limited"
    /\ UNCHANGED <<cfConfig, cfPages, cfCategorized, cfFiltered>>
    /\ UNCHANGED <<optVars, notFilter>>

FilterNext == FilterCall \/ CategoryLimitsCall

InitFilter ==
    /\ optRetries = DefaultRetries
    /\ optTransformer = "identity"
    /\ cfConfig \in FilterConfigs
    /\ cfPages \in SeqsUpTo(FilterPages, MaxFilterPages)
    /\ cfpc = "call"
    /\ cfCategorized = <<>> /\ cfFiltered = <<>> /\ cfLimited = <<>>
    /\ SiteIdle /\ FetchIdle /\ CrawlIdle /\ LimitsIdle /\ GenIdle /\ ExtractIdle
    /\ NormIdle
    /\ FallbackIdle /\ LinksIdle /\ ToolsIdle

SpecFilter == InitFilter /\ [][FilterNext]_vars

(***************************************************************************)
(* extractContentWithFallbacks: the five extraction methods in order.      *)
(***************************************************************************)
Str_NoContentCouldBeExtracted ==
    <<"N", "o", " ", "c", "o", "n", "t", "e", "n", "t", " ", "c", "o", "u",
      "l", "d", " ", "b", "e", " ", "e", "x", "t", "r", "a", "c", "t", "e",
      "d", " ", "f", "r", "o", "m", " ", "t", "h", "i", "s", " ", "p", "a",
      "g", "e", ".">>

Str_Description == <<"D", "e", "s", "c", "r", "i", "p", "t", "i", "o", "n", ":", " ">>

Str_TitleColon == <<"T", "i", "t", "l", "e", ":", " ">>

Str_Summary == <<"S", "u", "m", "m", "a", "r", "y", ":", " ">>

\* a method's output must be longer than this to be accepted
MinExtractedLength == 50

RECURSIVE LeadingWhitespace(_, _)
\* the number of whitespace characters of s from position i on
LeadingWhitespace(s, i) ==
    IF i <= Len(s) /\ s[i] \in Whitespace THEN 1 + LeadingWhitespace(s, i + 1) ELSE 0

RECURSIVE TrailingWhitespace(_, _)
\* the number of whitespace characters of s from position i back
TrailingWhitespace(s, i) ==
    IF i >= 1 /\ s[i] \in Whitespace THEN 1 + TrailingWhitespace(s, i - 1) ELSE 0

\* s.trim()
Trim(s) ==
    LET lead == LeadingWhitespace(s, 1)
    IN  IF lead = Len(s) THEN <<>>
        ELSE SubSeq(s, lead + 1, Len(s) - TrailingWhitespace(s, Len(s)))

RECURSIVE NewlineRun(_, _)
\* the number of newline characters of s from position i on
NewlineRun(s, i) == IF i <= Len(s) /\ s[i] = "\n" THEN 1 + NewlineRun(s, i + 1) ELSE 0

RECURSIVE CollapseNewlinesFrom(_, _)
CollapseNewlinesFrom(s, i) ==
    IF i > Len(s) THEN <<>>
    ELSE LET run == NewlineRun(s, i)
         IN  IF run >= 3 THEN <<"\n", "\n">> \o CollapseNewlinesFrom(s, i + run)
             ELSE <<s[i]>> \o CollapseNewlinesFrom(s, i + 1)

\* s.replace(/\n{3,}/g, '\n\n'); a text without three newlines in a row
\* stays as it is
CollapseNewlines(s) ==
    IF \E i \in 1..(Len(s) - 2) : s[i] = "\n" /\ s[i + 1] = "\n" /\ s[i + 2] = "\n"
    THEN CollapseNewlinesFrom(s, 1)
    ELSE s

RECURSIVE CollapseWhitespaceFrom(_, _)
CollapseWhitespaceFrom(s, i) ==
    IF i > Len(s) THEN <<>>
    ELSE LET run == LeadingWhitespace(s, i)
         IN  IF run >= 1 THEN <<" ">> \o CollapseWhitespaceFrom(s, i + run)
             ELSE <<s[i]>> \o CollapseWhitespaceFrom(s, i + 1)

\* s.replace(/\s+/g, ' '); no newline is left for .replace(/\n\s*\n/g, '\n\n')
CollapseWhitespace(s) ==
    IF \E i \in 1..Len(s) : s[i] \in Whitespace THEN CollapseWhitespaceFrom(s, 1) ELSE s

\* a || b for strings
OrElse(a, b) == IF a # NoString THEN a ELSE b

\* what a method call ends in: a result, or an Error thrown
Extracted(title, content) == [threw |-> FALSE, title |-> title, content |-> content]

Thrown == [threw |-> TRUE, title |-> NoString, content |-> <<>>]

\* reader.parse() returned null
NoArticle == [parsed |-> FALSE, title |-> NoString, markdown |-> <<>>]

\* the article Readability found, its content as turndown renders it
Article(title, markdown) == [parsed |-> TRUE, title |-> title, markdown |-> markdown]

\* a document as the extraction methods see it: its title, the article of
\* Readability, what turndown renders of the elements the semantic and the
\* content selectors match (in the order of the selector lists), the meta
\* tags, the text of its script elements of type application/ld+json, and
\* the text of the body without navigation, footer and sidebars
Document(title, article, semantic, contentMatches, metaDescription, ogTitle, ogDescription, bodyText, jsonLdScripts) ==
    [title |-> title, article |-> article, semantic |-> semantic,
     contentMatches |-> contentMatches, metaDescription |-> metaDescription,
     ogTitle |-> ogTitle, ogDescription |-> ogDescription, bodyText |-> bodyText,
     jsonLdScripts |-> jsonLdScripts]

\* the text of a JSON-LD script element: JSON with the fields description
\* and text (<<>>: the field is absent), or text JSON.parse throws on
JsonLd(description, text) == [valid |-> TRUE, description |-> description, text |-> text]

InvalidJsonLd == [valid |-> FALSE, description |-> <<>>, text |-> <<>>]

\* document.querySelectorAll('script, style, noscript, template').forEach(
\* element => element.remove()): the document without its script elements
RemoveScripts(doc) == [doc EXCEPT !.jsonLdScripts = <<>>]

Str_StructuredDescription ==
    <<"S", "t", "r", "u", "c", "t", "u", "r", "e", "d", " ",
      "D", "e", "s", "c", "r", "i", "p", "t", "i", "o", "n", ":", " ">>

Str_ContentColon == <<"C", "o", "n", "t", "e", "n", "t", ":", " ">>

RECURSIVE JsonLdContent(_, _)
\* jsonLdScripts.forEach(script => ...), from the k-th script on: what the
\* loop appends to content
JsonLdContent(scripts, k) ==
    IF k > Len(scripts) THEN <<>>
    ELSE LET data == scripts[k]
             description == IF data.valid /\ data.description # <<>>
                            THEN Str_StructuredDescription \o data.description
                                     \o <<"\n", "\n">>
                            ELSE <<>>
             text == IF data.valid /\ data.text # <<>>
                     THEN Str_ContentColon \o data.text \o <<"\n", "\n">>
                     ELSE <<>>
         IN  description \o text \o JsonLdContent(scripts, k + 1)

\* extractWithReadability
ExtractWithReadability(doc, url) ==
    IF ~doc.article.parsed THEN Thrown
    ELSE Extracted(OrElse(doc.article.title, OrElse(doc.title, url)),
                   CollapseNewlines(Trim(doc.article.markdown)))

\* the loop over a selector list: the first matched element whose trimmed
\* markdown is longer than 50 characters
ExtractWithSelectors(matches, title) ==
    LET long == {i \in 1..Len(matches) : Len(Trim(matches[i])) > MinExtractedLength}
    IN  IF long = {} THEN Thrown
        ELSE Extracted(title,
                       CollapseNewlines(Trim(matches[CHOOSE i \in long :
                                                        \A j \in long : i <= j])))

\* extractWithSemanticSelectors
ExtractWithSemanticSelectors(doc, url) ==
    ExtractWithSelectors(doc.semantic, OrElse(doc.title, url))

\* extractWithContentSelectors
ExtractWithContentSelectors(doc, url) ==
    ExtractWithSelectors(doc.contentMatches, OrElse(doc.title, url))

\* extractWithMetadata
ExtractWithMetadata(doc, url) ==
    LET title == OrElse(doc.title, url)
        description == IF doc.metaDescription # <<>>
                       THEN Str_Description \o doc.metaDescription \o <<"\n", "\n">>
                       ELSE <<>>
        ogTitle == IF doc.ogTitle # NoString /\ doc.ogTitle # title
                   THEN Str_TitleColon \o TitleChars(doc.ogTitle) \o <<"\n", "\n">>
                   ELSE <<>>
        summary == IF /\ doc.ogDescription # <<>>
                      /\ doc.ogDescription # doc.metaDescription
                   THEN Str_Summary \o doc.ogDescription \o <<"\n", "\n">>
                   ELSE <<>>
        content == description \o ogTitle \o summary
                       \o JsonLdContent(doc.jsonLdScripts, 1)
    IN  IF Len(Trim(content)) < MinExtractedLength THEN Thrown
        ELSE Extracted(title, Trim(content))

\* extractRawText
ExtractRawText(doc, url) ==
    LET cleanedText == Trim(CollapseWhitespace(doc.bodyText))
    IN  IF Len(cleanedText) < MinExtractedLength THEN Thrown
        ELSE Extracted(OrElse(doc.title, url), cleanedText)

ExtractionMethods == <<"readability", "semantic", "content", "metadata", "raw">>

\* method()
CallMethod(method, doc, url) ==
    CASE method = "readability" -> ExtractWithReadability(doc, url)
      [] method = "semantic" -> ExtractWithSemanticSelectors(doc, url)
      [] method = "content" -> ExtractWithContentSelectors(doc, url)
      [] method = "metadata" -> ExtractWithMetadata(doc, url)
      [] method = "raw" -> ExtractRawText(doc, url)

\* accepted from 50 characters on
AcceptedFrom50(result) ==
    /\ ~result.threw
    /\ result.content # <<>>
    /\ Len(Trim(result.content)) >= MinExtractedLength

\* result.content && result.content.trim().length > 50, for a call that did
\* not throw
Accepted(result) ==
    /\ ~result.threw
    /\ result.content # <<>>
    /\ Len(Trim(result.content)) > MinExtractedLength

RECURSIVE MethodsTried(_, _, _)
\* the methods the loop calls from the k-th on: up to the first one accepted
MethodsTried(doc, url, k) ==
    IF k > Len(ExtractionMethods) THEN <<>>
    ELSE IF Accepted(CallMethod(ExtractionMethods[k], doc, url))
         THEN <<ExtractionMethods[k]>>
         ELSE <<ExtractionMethods[k]>> \o MethodsTried(doc, url, k + 1)

\* extractContentWithFallbacks
ExtractContentWithFallbacks(doc, url) ==
    LET tried == MethodsTried(doc, url, 1)
        last  == CallMethod(tried[Len(tried)], doc, url)
    IN  IF Accepted(last) THEN [title |-> last.title, content |-> last.content]
        ELSE [title |-> OrElse(doc.title, url),
              content |-> Str_NoContentCouldBeExtracted]

\* extractContent in multi-method mode, from the removal of the script
\* elements to const extractionResult =
\* this.extractContentWithFallbacks(document, url)
FallbacksCall ==
    /\ xpc = "call"
    /\ xDocument' = RemoveScripts(xDocument)
    /\ xTried' = MethodsTried(xDocument', LocA, 1)
    /\ xResult' = ExtractContentWithFallbacks(xDocument', LocA)
    /\ xpc' = "returned"
    /\ UNCHANGED xParsed
    /\ UNCHANGED <<optVars, notFallback>>

\* what turndown renders of elements: short, long, and long only as long as
\* its run of newlines is not collapsed
Markdowns ==
    {Text(30), Text(52), Text(25) \o <<"\n", "\n", "\n">> \o Text(23)}

MaxMatches == 2

Articles ==
    {NoArticle, Article("Title", <<>>), Article(NoString, Text(50)),
     Article("Title", <<" ">> \o Text(51) \o <<"\n">>)}

\* meta description, og:title and og:description
MetaTags ==
    {<<<<>>, NoString, <<>>>>,
     <<Text(37), NoString, Text(37)>>,
     <<Text(38), "Title", <<>>>>,
     <<Text(20), "Title", Text(9)>>}

\* the JSON-LD script elements of a page: none, one with a description
\* and a text, one that is no JSON followed by one with a description
JsonLdScripts ==
    {<<>>,
     <<JsonLd(Text(30), Text(20))>>,
     <<InvalidJsonLd, JsonLd(Text(40), <<>>)>>}

BodyTexts ==
    {<<>>, Text(50), Text(51), Text(30) \o <<" ", "\n", " ">> \o Text(19)}

InitFallback ==
    /\ optRetries = DefaultRetries
    /\ optTransformer = "identity"
    /\ xParsed \in
          {Document(t, a, s, c, m[1], m[2], m[3], b, j) :
              t \in {"Title", NoString}, a \in Articles,
              s \in SeqsUpTo(Markdowns, MaxMatches),
              c \in {<<>>, <<Text(50)>>, <<Text(60)>>, <<Text(50), Text(60)>>},
              m \in MetaTags, b \in BodyTexts, j \in JsonLdScripts}
    /\ xDocument = xParsed
    /\ xpc = "call"
    /\ xTried = <<>> /\ xResult = <<>>
    /\ SiteIdle /\ FetchIdle /\ CrawlIdle /\ LimitsIdle /\ GenIdle /\ ExtractIdle
    /\ NormIdle /\ FilterIdle /\ LinksIdle /\ ToolsIdle

SpecFallback == InitFallback /\ [][FallbacksCall]_vars

(***************************************************************************)
(* extractLinksFromPages: a pool of workers that share the array urls.     *)
(***************************************************************************)
\* an array that keeps its first element
ShiftNothing(list) == list

\* what urls.shift() leaves in the array
Shift(list) == Tail(list)

\* the array replaced by the links
PushLinksReplacing(list, links) == links

\* discovered.push(...links)
PushLinks(list, links) == list \o links

\* worker w at the top of `while (urls.length > 0)`: it takes the first URL
\* and starts its extractLinksFromPage, or it ends; st holds urls, kwpc,
\* kwurl and taken
LinkWorkerLoop(st, w) ==
    IF Len(st.urls) > 0
    THEN LET url == Head(st.urls)
         IN  IF url = NoString
             THEN [st EXCEPT !.urls = Shift(@), !.kwpc[w] = "done"]      \* if (!url) break
             ELSE [st EXCEPT !.urls = Shift(@),
                             !.kwpc[w] = "fetching",
                             !.kwurl[w] = url,
                             !.taken = Append(@, [worker |-> w, url |-> url])]
    ELSE [st EXCEPT !.kwpc[w] = "done"]

RECURSIVE StartLinkWorkers(_, _, _)
\* semaphore.map(async () => ...): each worker runs to its first await before
\* the next one starts
StartLinkWorkers(st, w, n) ==
    IF w > n THEN st ELSE StartLinkWorkers(LinkWorkerLoop(st, w), w + 1, n)

LinkPoolState == [urls |-> kUrls, kwpc |-> kwpc, kwurl |-> kwurl, taken |-> kTaken]

SetLinkPoolState(st) ==
    /\ kUrls' = st.urls
    /\ kwpc' = st.kwpc
    /\ kwurl' = st.kwurl
    /\ kTaken' = st.taken

\* extractLinksFromPages(urls, depth) is called: discovered = [], the workers
\* start
ExtractLinksCall ==
    /\ kpc = "call"
    /\ kDiscovered' = <<>>
    /\ SetLinkPoolState(StartLinkWorkers(
           [urls |-> kRound,
            kwpc |-> [w \in 1..kConcurrency |-> "new"],
            kwurl |-> [w \in 1..kConcurrency |-> NoString],
            taken |-> <<>>],
           1, kConcurrency))
    /\ kpc' = "running"
    /\ UNCHANGED <<kConcurrency, kRound, kDepth>>
    /\ UNCHANGED <<optVars, notLinks>>

\* worker w's await this.extractLinksFromPage(url, depth) settles (it never
\* rejects: extractLinksFromPage catches and returns []); the links are
\* pushed and the worker waits for requestDelay
LinkWorkerFetched(w) ==
    /\ kpc = "running"
    /\ kwpc[w] = "fetching"
    /\ kDiscovered' = PushLinks(kDiscovered,
                                ExtractLinksFromPage(siteBehaviour, kwurl[w], kDepth,
                                                     optMaxLinksPerPage, optSiteUrl))
    /\ kwpc' = [kwpc EXCEPT ![w] = "delay"]
    /\ UNCHANGED <<kConcurrency, kRound, kDepth, kUrls, kpc, kwurl, kTaken>>
    /\ UNCHANGED <<optVars, notLinks>>

\* worker w's delay is over: it goes round its loop
LinkWorkerDelayed(w) ==
    /\ kpc = "running"
    /\ kwpc[w] = "delay"
    /\ SetLinkPoolState(LinkWorkerLoop(LinkPoolState, w))
    /\ UNCHANGED <<kConcurrency, kRound, kDepth, kpc, kDiscovered>>
    /\ UNCHANGED <<optVars, notLinks>>

\* await Promise.all(...) settles: return discovered
ExtractLinksReturn ==
    /\ kpc = "running"
    /\ \A w \in 1..kConcurrency : kwpc[w] = "done"
    /\ kpc' = "returned"
    /\ UNCHANGED <<kConcurrency, kRound, kDepth, kUrls, kwpc, kwurl, kTaken, kDiscovered>>
    /\ UNCHANGED <<optVars, notLinks>>

LinksNext ==
    \/ ExtractLinksCall
    \/ \E w \in 1..kConcurrency : LinkWorkerFetched(w)
    \/ \E w \in 1..kConcurrency : LinkWorkerDelayed(w)
    \/ ExtractLinksReturn

MaxRoundUrls == 3

\* the URLs of a round: keys of the Map discovered, so no URL twice
RoundUrls ==
    {r \in SeqsUpTo({LocA, LocB, LocD, LocE}, MaxRoundUrls) :
        \A i, j \in 1..Len(r) : r[i] = r[j] => i = j}

InitLinks ==
    /\ optRetries = DefaultRetries
    /\ optTransformer = "identity"
    /\ optSiteUrl = SiteUrl /\ optSitemapUrl = RootSitemap
    /\ optContentFilter = NoContentFilter /\ siteChildren = <<>>
    /\ siteLinks \in LinkGraphs
    /\ siteBehaviour \in SiteBehaviours
    /\ optMaxLinksPerPage \in {1, DefaultMaxLinksPerPage}
    /\ userMaxPages = 0 /\ optMaxPages = 0 /\ optOutputFormat = "full"
    /\ optFormatLimits = DefaultFormatLimits /\ optRecursive = TRUE
    /\ optMaxDepth = 1
    /\ optInclude = {} /\ optExclude = {}
    /\ siteSitemap = <<>>
    /\ gpc = "idle" /\ sitemapUrls = <<>> /\ filteredUrls = <<>>
    /\ discovered = <<>> /\ dDepth = 0 /\ discoveredUrls = <<>>
    /\ sortedUrls = <<>> /\ pageResults = <<>> /\ filteredResults = <<>>
    /\ document = NoDocument /\ gError = NoString /\ requested = {}
    /\ kConcurrency \in 1..MaxConcurrency
    /\ kRound \in RoundUrls
    /\ kDepth = 1
    /\ kUrls = <<>> /\ kpc = "call" /\ kwpc = <<>> /\ kwurl = <<>> /\ kTaken = <<>>
    /\ kDiscovered = <<>>
    /\ FetchIdle /\ CrawlIdle /\ LimitsIdle /\ ExtractIdle /\ NormIdle /\ FilterIdle
    /\ FallbackIdle /\ ToolsIdle

SpecLinks == InitLinks /\ [][LinksNext]_vars

\* the two worker pools of a run: crawlPages on a URL list, or one round of
\* extractLinksFromPages
SpecPools == (InitCrawl \/ InitLinks) /\ [][CrawlNext \/ LinksNext]_vars

(***************************************************************************)
(* Properties.                                                             *)
(***************************************************************************)
RECURSIVE TotalContentLength(_)
\* the sum of the content lengths of a page list
TotalContentLength(pages) ==
    IF Len(pages) = 0 THEN 0
    ELSE Len(pages[Len(pages)].content)
            + TotalContentLength(SubSeq(pages, 1, Len(pages) - 1))

\* C1: crawlPages returns one result per input URL, the i-th result being
\* the result of crawling the i-th URL of the list, whatever the order in
\* which the workers' crawls complete.
C1_ResultsInInputOrder ==
    cpc = "done" =>
        /\ Len(returned) = Len(urls)
        /\ \A i \in 1..Len(urls) :
              /\ returned[i].url = urls[i].loc
              /\ returned[i].lastmod = urls[i].lastmod
              /\ returned[i] \in {CrawlSinglePage(urls[i], f, optTransformer) :
                                    f \in CrawlFetched(urls[i])}

\* three URLs, two workers, and the first URL's crawl completes last
C1_Witness ==
    /\ cpc = "done"
    /\ optConcurrency = 2
    /\ Len(urls) = 3
    /\ urls[1].loc # urls[2].loc
    /\ completion = <<1, 2, 0>>

\* C2: every index of the list is taken by exactly one worker: never by
\* two, and when crawlPages returns each index has been taken once, its
\* crawl has completed once and its slot holds a result.
C2_EachIndexClaimedOnce ==
    /\ \A i \in DOMAIN claimed : claimed[i] <= 1
    /\ cpc = "running" =>
          \A v, w \in 1..optConcurrency :
              (v # w /\ wpc[v] = "crawling" /\ wpc[w] = "crawling") => widx[v] # widx[w]
    /\ cpc = "done" =>
          /\ \A i \in 0..(Len(urls) - 1) :
                /\ claimed[i] = 1
                /\ Cardinality({k \in 1..Len(completion) : completion[k] = i}) = 1
                /\ ~IsHole(results[i + 1])
          /\ Len(results) = Len(urls)
          /\ Len(returned) = Len(urls)

\* two workers have shared a list of three URLs
C2_Witness ==
    /\ cpc = "done"
    /\ optConcurrency = 2
    /\ Len(urls) = 3
    /\ \A i \in 0..2 : claimed[i] = 1
    /\ Len(returned) = 3

\* C3: the number of pages crawled, and of pages in the document, is at
\* most the maxPages the caller supplied.
C3_AtMostMaxPages ==
    userMaxPages # NoNumber =>
        /\ Len(pageResults) <= userMaxPages
        /\ gpc = "done" => document.pageCount <= userMaxPages

\* C4: the content lengths of the pages applyCharacterLimits includes sum
\* to at most maxTotalChars, and when a page is left out the
\* globalLimitReached flag is set.
C4_TotalWithinBudget ==
    lpc = "done" =>
        /\ TotalContentLength(processedResults) <= optMaxTotalChars
        /\ Len(processedResults) < Len(lInput) => statsGlobalLimitReached

\* C5: a page returned by applyCharacterLimits has truncated = true exactly
\* when the content it came with was longer than maxCharsPerPage, and its
\* content is then the first maxCharsPerPage characters followed by the
\* marker; a page not truncated keeps its content; and a truncated page has
\* originalLength >= contentLength.
C5_TruncatedIffClamped ==
    lpc = "done" =>
        \A i \in 1..Len(processedResults) :
            LET p == processedResults[i]
                q == lInput[i]
            IN  /\ p.truncated <=>
                      /\ Len(q.content) > optMaxCharsPerPage
                      /\ p.content = SubSeq(q.content, 1, optMaxCharsPerPage)
                                        \o TruncationMarker(optMaxCharsPerPage)
                /\ ~p.truncated => p.content = q.content
                /\ p.truncated => /\ p.originalLength = Len(q.content)
                                   /\ p.originalLength >= p.contentLength

\* a run that truncated one page and kept another as it was
C5_Witness ==
    /\ lpc = "done"
    /\ \E i, j \in 1..Len(processedResults) :
          /\ processedResults[i].truncated
          /\ processedResults[i].success
          /\ ~processedResults[j].truncated
          /\ Len(processedResults[j].content) = optMaxCharsPerPage

\* C6: at every stage, a PageResult's contentLength is the length of its
\* content.
C6_ContentLengthIsLength ==
    \A p \in Range(pageResults) \cup Range(processedResults) :
        p.contentLength = Len(p.content)

\* C7: in the final processed set, truncated = true implies
\* originalLength > contentLength.
C7_TruncatedStrictlyShorter ==
    lpc = "done" =>
        \A p \in Range(processedResults) :
            p.truncated => p.originalLength > p.contentLength

\* C8: once an attempt has ended in a response with a non-OK status, that
\* request stays the only one, fetchWithRetry does not wait to retry, and
\* what it hands to its caller is that response.
C8_NonOkNotRetried ==
    \A k \in 1..Len(fLog) :
        (fLog[k].kind = "response" /\ ~Ok(fLog[k])) =>
            /\ fIssued = 1
            /\ fpc # "backoff"
            /\ fpc = "returned" => (fFetch.kind = "response" /\ fFetch.status = fLog[k].status)

\* C9: a page whose fetch ended with the non-OK status s has success =
\* false, statusCode = s and skipReason = "http-<s>".
C9_HttpStatusSkipReason ==
    (fpc = "returned" /\ Len(fLog) > 0 /\ fLog[Len(fLog)].kind = "response"
        /\ ~Ok(fLog[Len(fLog)])) =>
            /\ fPage.success = FALSE
            /\ fPage.statusCode = fLog[Len(fLog)].status
            /\ fPage.skipReason = Str_HttpDash \o Digits(fLog[Len(fLog)].status)

\* C10: when every attempt failed at transport level, the attempts number
\* at most options.retries, the wait after attempt k was base * k, and the
\* error thrown is the last attempt's.
C10_RetriesBoundedLinearBackoff ==
    (fpc = "returned" /\ Len(fLog) > 0 /\ \A k \in 1..Len(fLog) : fLog[k].kind = "error") =>
        /\ fIssued <= optRetries
        /\ \A k \in 1..Len(fDelays) : fDelays[k] = BackoffBase * k
        /\ fFetch = fLog[Len(fLog)]

\* C11: a page that fails (the fetch throws, the answer is no HTML page, the
\* transformer throws) never aborts the run: once crawlPages has returned
\* there is one PageResult per URL handed to it, in order, the PageResult of
\* a URL is a success exactly when the site served an HTML page for it and
\* the transformer returned, no error is raised, and a run that did fail
\* failed before any page was crawled.
C11_PageFailureContained ==
    /\ gpc \in {"contentfilter", "limits", "assemble", "done"} =>
          /\ gError = NoString
          /\ Len(pageResults) = Len(sortedUrls)
          /\ \A i \in 1..Len(sortedUrls) :
                LET loc    == sortedUrls[i].loc
                    served == /\ ParsesAsUrl(loc)
                              /\ NormalizeUrl(loc) \in DOMAIN siteBehaviour
                              /\ siteBehaviour[NormalizeUrl(loc)] = "ok"
                IN  /\ pageResults[i].url = loc
                    /\ pageResults[i].success <=> (served /\ optTransformer # "throw")
    /\ gpc = "done" => document # NoDocument
    /\ gpc = "failed" => pageResults = <<>> /\ gError # NoString

\* a finished run in which one page failed and another was crawled
C11_Witness ==
    /\ gpc = "done"
    /\ \E i, j \in 1..Len(pageResults) :
          /\ ~pageResults[i].success /\ pageResults[i].skipReason = Str_ParseError
          /\ pageResults[j].success

\* C12: with or without a contentFilter, every page whose crawl failed is in
\* the assembled document: a table-of-contents entry marked "(Skipped)" and
\* a skipped stub with the page's reason.
C12_FailedPagesMarked ==
    gpc = "done" =>
        \A i \in 1..Len(pageResults) :
            ~pageResults[i].success =>
                \E k \in 1..Len(document.toc) :
                    /\ document.toc[k].url = pageResults[i].url
                    /\ document.toc[k].skipped
                    /\ document.pages[k].kind = "SKIPPED"
                    /\ document.pages[k].url = pageResults[i].url
                    /\ document.pages[k].body = pageResults[i].error

\* C13: with a missing or unparseable siteUrl the run fails with
\* INVALID_URL, and before any request, for a sitemap or for a page, is
\* issued.
C13_InvalidSiteUrlFailsFirst ==
    (optSiteUrl = NoString \/ ~ParsesAsUrl(optSiteUrl)) =>
        /\ requested = {}
        /\ gpc \in {"construct", "failed"}
        /\ gpc = "failed" => gError = "INVALID_URL"

\* C14: when the root sitemap cannot be fetched, generate() fails with a
\* NETWORK_ERROR: no page is requested or crawled, and no document is
\* produced.
C14_RootSitemapFailureIsNetworkError ==
    (optSiteUrl # NoString /\ siteBehaviour[RootSitemap] # "ok") =>
        /\ gpc \in {"construct", "start", "extract", "failed"}
        /\ gpc = "failed" => gError = "NETWORK_ERROR"
        /\ requested \subseteq {optSitemapUrl}
        /\ pageResults = <<>> /\ processedResults = <<>>
        /\ document = NoDocument

\* a run that failed on the request for its root sitemap
C14_Witness ==
    /\ siteBehaviour[RootSitemap] = "down"
    /\ optSitemapUrl \in requested
    /\ gpc = "failed" /\ gError = "NETWORK_ERROR"

(***************************************************************************)
(* What a sitemap index is to resolve to, read off the documents the site  *)
(* serves.                                                                 *)
(***************************************************************************)
\* the root sitemap is served and is a <sitemapindex>: <sitemap> blocks only
RootIsIndex ==
    /\ ParsesAsUrl(optSiteUrl)
    /\ siteBehaviour[RootSitemap] = "ok"
    /\ siteSitemap # <<>>
    /\ \A i \in 1..Len(siteSitemap) : siteSitemap[i].tag = "sitemap"

\* the child sitemaps the index lists and the site serves, in the order of
\* the index
ReadableChildren ==
    LET listed == [i \in 1..Len(siteSitemap) |-> siteSitemap[i].loc]
    IN  SelectSeq(listed, LAMBDA c : DocAt(siteChildren, c).how = "ok")

\* the <url> entries of the site's host in a child sitemap
PageUrlsOf(child) ==
    LET blocks == SelectSeq(DocAt(siteChildren, child).xml,
                            LAMBDA b : /\ b.tag = "url"
                                       /\ Hostname(b.loc) = Hostname(optSiteUrl))
    IN  [i \in 1..Len(blocks) |-> SitemapUrl(blocks[i].loc, blocks[i].lastmod)]

RECURSIVE PageUrlsOfAll(_, _)
\* the entries of the readable children, from child i on, one after another
PageUrlsOfAll(children, i) ==
    IF i > Len(children) THEN <<>>
    ELSE PageUrlsOf(children[i]) \o PageUrlsOfAll(children, i + 1)

\* C15: when the root sitemap is an index, a child sitemap that cannot be
\* fetched does not fail extractUrls, and the result holds every page URL of
\* every child that could be read.
C15_BadChildTolerated ==
    RootIsIndex =>
        /\ epc # "thrown"
        /\ epc = "returned" =>
              \A k \in 1..Len(ReadableChildren) :
                  \A e \in Range(PageUrlsOf(ReadableChildren[k])) :
                      \E r \in Range(eResult) : r.loc = e.loc

\* C16: for a root sitemap index the result of extractUrls is the union of
\* the same-host locations of the children, each location once, with the
\* entry of the last child listing it.
C16_UnionOfChildrenOnce ==
    (RootIsIndex /\ epc = "returned") =>
        LET all == PageUrlsOfAll(ReadableChildren, 1)
        IN  /\ {eResult[i].loc : i \in 1..Len(eResult)} = {all[i].loc : i \in 1..Len(all)}
            /\ \A i, j \in 1..Len(eResult) : eResult[i].loc = eResult[j].loc => i = j
            /\ \A i \in 1..Len(eResult) :
                  \E k \in 1..Len(all) :
                      /\ all[k] = eResult[i]
                      /\ \A m \in (k + 1)..Len(all) : all[m].loc # all[k].loc

\* C17: when a child of the root index is itself a sitemap index, the page
\* URLs of the sitemaps it lists are in the result of extractUrls.
C17_NestedIndexResolved ==
    (RootIsIndex /\ epc = "returned") =>
        \A k \in 1..Len(ReadableChildren) :
            LET xml == DocAt(siteChildren, ReadableChildren[k]).xml
            IN  (xml # <<>> /\ \A i \in 1..Len(xml) : xml[i].tag = "sitemap") =>
                    \A i \in 1..Len(xml) :
                        DocAt(siteChildren, xml[i].loc).how = "ok" =>
                            \A e \in Range(PageUrlsOf(xml[i].loc)) :
                                \E r \in Range(eResult) : r.loc = e.loc

\* C18: whatever the sitemap holds, and with recursive discovery on or off,
\* no two PageResults of the final processed set have the same url.
C18_ProcessedUrlsUnique ==
    gpc \in {"assemble", "done"} =>
        \A i, j \in 1..Len(processedResults) :
            processedResults[i].url = processedResults[j].url => i = j

\* C19: a fetched HTML body longer than 5 MiB gives a PageResult with
\* success = false and skipReason "too-large", and neither extractContent
\* nor the content transformer is called for the page.
C19_TooLargeSkipsExtraction ==
    (fpc = "returned" /\ Len(fLog) > 0 /\ fLog[Len(fLog)].kind = "response"
        /\ Ok(fLog[Len(fLog)]) /\ IsHtml(fLog[Len(fLog)].contentType)
        /\ fLog[Len(fLog)].body.length > 5 * 1024 * 1024) =>
            /\ fPage.success = FALSE
            /\ fPage.skipReason = Str_TooLarge
            /\ fExtractCalls = 0

\* a page of 5 MiB + 1 was fetched, for a generator whose transformer throws
C19_Witness ==
    /\ fpc = "returned"
    /\ fFetch.kind = "response" /\ Ok(fFetch)
    /\ fFetch.body.length = 5 * 1024 * 1024 + 1
    /\ optTransformer = "throw"
    /\ fPage.skipReason = Str_TooLarge

\* C20: normalizeUrl is idempotent: for every URL and every keepQueryParams,
\* normalizing the result of normalizeUrl gives that result again.
C20_NormalizeUrlIdempotent ==
    npc = "twice" => nTwice = nOnce

\* a URL with a fragment and a kept parameter whose value has an escaped
\* percent sign was normalized twice, and the first pass changed it
C20_Witness ==
    /\ npc = "twice"
    /\ nUrl.valid /\ nUrl.fragment.present
    /\ nOnce # nUrl
    /\ nOnce.query.present
    /\ \E i \in 1..Len(nOnce.query.params) : nOnce.query.params[i].value = "%2541"

\* C21: every DiscoveredUrl of the discovery has a depth from 0 to
\* maxRecursiveDepth, on every link graph: a seed has depth 0 and a URL
\* found by a link has the depth of the page it was found on plus 1.
C21_DepthWithinBound ==
    LET found == MapValues(discovered) \o discoveredUrls
    IN  \A i \in 1..Len(found) :
            /\ 0 <= found[i].depth /\ found[i].depth <= optMaxDepth
            /\ found[i].discoveryMethod = "sitemap" => found[i].depth = 0
            /\ found[i].discoveryMethod = "internal-link" =>
                  \E j \in 1..Len(found) :
                      /\ found[j].url = found[i].parentUrl
                      /\ found[i].depth = found[j].depth + 1

\* a discovery that returned a URL found maxRecursiveDepth >= 2 hops away
\* from the seeds, on a site whose pages link back to each other
C21_Witness ==
    /\ gpc = "sort" /\ optRecursive /\ optMaxDepth >= 2
    /\ LocA \in DOMAIN siteLinks /\ LocD \in DOMAIN siteLinks
    /\ \E i \in 1..Len(siteLinks[LocD]) : siteLinks[LocD][i] = LocA
    /\ \E i \in 1..Len(discoveredUrls) : discoveredUrls[i].depth = optMaxDepth

\* C22: recursive discovery terminates on every link graph, cycles
\* included: every step either returns or is a round that moves the depth
\* up by one, the depth never passes maxRecursiveDepth, a round that adds
\* no URL leaves no URL for a further round, and without a URL at the
\* current depth the loop returns without a further request.
C22_DiscoveryTerminates ==
    /\ [](optRecursive => dDepth <= optMaxDepth)
    /\ [][\/ gpc' = "sort"
          \/ gpc = "discover" /\ gpc' = "discovering" /\ dDepth' = 0
          \/ gpc = "discovering" /\ gpc' = "discovering" /\ dDepth' = dDepth + 1]_vars
    /\ [][(gpc = "discovering" /\ gpc' = "discovering"
             /\ Len(discovered') = Len(discovered)) =>
                \A i \in 1..Len(discovered') : discovered'[i].value.depth # dDepth']_vars
    /\ [][(gpc = "discovering"
             /\ \A i \in 1..Len(discovered) : discovered[i].value.depth # dDepth) =>
                (gpc' = "sort" /\ requested' = requested)]_vars

\* a discovery that returned after a single round, with rounds to spare,
\* on a site whose pages link to each other
C22_Witness ==
    /\ gpc = "sort" /\ optRecursive
    /\ dDepth = 1 /\ dDepth < optMaxDepth
    /\ requested # {}
    /\ LocA \in DOMAIN siteLinks /\ LocB \in DOMAIN siteLinks
    /\ \E i \in 1..Len(siteLinks[LocB]) : siteLinks[LocB][i] = LocA

\* C23: of two sitemap entries that both carry a lastmod, the one with the
\* later lastmod comes first in the table of contents of the assembled
\* document.
C23_TocByLastmodDescending ==
    gpc = "done" =>
        \A i, j \in 1..Len(document.toc) :
            (/\ document.toc[i].url = processedResults[i].url
             /\ document.toc[j].url = processedResults[j].url
             /\ processedResults[i].lastmod # NoString
             /\ processedResults[j].lastmod # NoString
             /\ DateTime(processedResults[i].lastmod) > DateTime(processedResults[j].lastmod))
                => i < j

C25_BestCategoryAssigned ==
    cfpc \in {"filtered", "limited"} =>
        \A i \in 1..Len(cfPages) :
            LET cats     == cfConfig.categories
                Score(k) == CalculateCategoryScore(cfPages[i], cats[k])
                winners  == {k \in 1..Len(cats) :
                                /\ cats[k].enabled /\ Score(k) > 0
                                /\ \A j \in 1..Len(cats) :
                                      cats[j].enabled => Score(j) <= Score(k)}
                first    == CHOOSE k \in winners : \A j \in winners : k <= j
            IN  IF winners # {}
                THEN /\ cfCategorized[i].category = cats[first].id
                     /\ cfCategorized[i].categoryPriority = cats[first].priority
                ELSE (\E k \in 1..Len(cats) : cats[k].id = cfConfig.defaultCategory)
                        => cfCategorized[i].category = cfConfig.defaultCategory

\* a page that two enabled categories score equally and highest, one that
\* only a disabled category scores, and one that no category scores
C25_Witness ==
    /\ cfpc = "filtered"
    /\ \E i \in 1..Len(cfPages) :
          /\ cfConfig.categories = <<ReferenceCategory, ApiCategory, GeneralCategory>>
          /\ CalculateCategoryScore(cfPages[i], ReferenceCategory) = 10
          /\ CalculateCategoryScore(cfPages[i], ApiCategory) = 10
          /\ cfCategorized[i].category = "reference"
    /\ \E i \in 1..Len(cfPages) :
          /\ cfPages[i].url = LocB
          /\ cfCategorized[i].category = "general"

\* C26: applyCategoryLimits keeps, of every category with a maxPages, at most
\* maxPages pages, and they are the first pages of that category in the list
\* it was given, in the order of that list; of a category without maxPages it
\* keeps every page, in the order of that list.
C26_CategoryLimitsKeepFirst ==
    cfpc = "limited" =>
        \A c \in 1..Len(cfConfig.categories) :
            LET category == cfConfig.categories[c]
                given == SelectSeq(cfFiltered, LAMBDA q : q.category = category.id)
                kept  == SelectSeq(cfLimited, LAMBDA q : q.category = category.id)
            IN  IF category.maxPages = NoNumber THEN kept = given
                ELSE /\ Len(kept) <= category.maxPages
                     /\ Len(kept) <= Len(given)
                     /\ kept = SubSeq(given, 1, Len(kept))

\* two pages of the API category, which keeps one, next to a page of a
\* category without a limit
C26_Witness ==
    /\ cfpc = "limited"
    /\ Len(SelectSeq(cfFiltered, LAMBDA q : q.category = "api")) = 2
    /\ Len(SelectSeq(cfLimited, LAMBDA q : q.category = "api")) = 1
    /\ \E g \in {"general", "guides"} :
          /\ Len(SelectSeq(cfFiltered, LAMBDA q : q.category = g)) = 1
          /\ Len(SelectSeq(cfLimited, LAMBDA q : q.category = g)) = 1

\* C27: the list applyCategoryLimits returns for the list filter returned is
\* ordered by category priority descending, then relevance score descending,
\* then content length descending.
C27_LimitedListOrdered ==
    cfpc = "limited" =>
        \A i, j \in 1..Len(cfLimited) :
            i < j =>
                \/ cfLimited[i].categoryPriority > cfLimited[j].categoryPriority
                \/ /\ cfLimited[i].categoryPriority = cfLimited[j].categoryPriority
                   /\ cfLimited[i].relevanceScore > cfLimited[j].relevanceScore
                \/ /\ cfLimited[i].categoryPriority = cfLimited[j].categoryPriority
                   /\ cfLimited[i].relevanceScore = cfLimited[j].relevanceScore
                   /\ cfLimited[i].contentLength >= cfLimited[j].contentLength

\* C28: the relevance score of every categorized page lies between 0 and 1
\* (0 and 100 hundredths), whatever the priority of its category.
C28_RelevanceScoreInUnitInterval ==
    \A i \in 1..Len(cfCategorized) :
        /\ 0 <= cfCategorized[i].relevanceScore
        /\ cfCategorized[i].relevanceScore <= 100

\* C29: extractContentWithFallbacks returns the result of the first method,
\* in the order readability, semantic selectors, content selectors, metadata,
\* raw text, whose trimmed content is longer than 50 characters, and calls no
\* method after it; when no method gives such a content it returns the
\* document's title (or the URL) with the fixed placeholder, and it never
\* throws.
C29_FirstAcceptedMethodWins ==
    /\ xpc # "thrown"
    /\ xpc = "returned" =>
        LET n       == Len(ExtractionMethods)
            Out(k)  == CallMethod(ExtractionMethods[k], xDocument, LocA)
            Long(k) == /\ ~Out(k).threw
                       /\ Len(Trim(Out(k).content)) > MinExtractedLength
        IN  /\ \A k \in 1..n :
                  (Long(k) /\ \A j \in 1..(k - 1) : ~Long(j)) =>
                      /\ xResult = [title |-> Out(k).title, content |-> Out(k).content]
                      /\ xTried = SubSeq(ExtractionMethods, 1, k)
            /\ (\A k \in 1..n : ~Long(k)) =>
                  /\ xResult = [title |-> OrElse(xDocument.title, LocA),
                                content |-> Str_NoContentCouldBeExtracted]
                  /\ xTried = ExtractionMethods

\* Readability gave 50 characters, the element a semantic selector matched
\* rendered to 50 characters once its newlines were collapsed, and a content
\* selector's element gave 60
C29_Witness ==
    /\ xpc = "returned"
    /\ xDocument.article = Article(NoString, Text(50))
    /\ xDocument.semantic = <<Text(25) \o <<"\n", "\n", "\n">> \o Text(23)>>
    /\ xTried = <<"readability", "semantic", "content">>
    /\ xResult.content = Text(60)
    /\ Len(Trim(CallMethod("raw", xDocument, LocA).content)) > MinExtractedLength

\* C30: no URL that matches an entry of excludePatterns is crawled, and none
\* is listed in the table of contents of the assembled document.
C30_ExcludedNeverCrawled ==
    /\ \A i \in 1..Len(pageResults) :
          ~MatchesAnyPattern(pageResults[i].url, optExclude)
    /\ gpc = "done" =>
          \A i \in 1..Len(document.toc) :
              ~MatchesAnyPattern(document.toc[i].url, optExclude)

(***************************************************************************)
(* File system discovery: matchesFilePatterns, scanDirectory, processFile. *)
(***************************************************************************)
RECURSIVE ReplaceAll(_, _, _)
\* s.replace(/from/g, to) for a literal from: left to right, the text put
\* in is not looked at again
ReplaceAll(s, from, to) ==
    IF Len(s) < Len(from) THEN s
    ELSE IF SubSeq(s, 1, Len(from)) = from
         THEN to \o ReplaceAll(SubSeq(s, Len(from) + 1, Len(s)), from, to)
         ELSE <<Head(s)>> \o ReplaceAll(Tail(s), from, to)

Re_NotSlash == <<"[", "^", "/", "]">>

\* const regexPattern = pattern.replace(/\*\*/g, '.*').replace(/\*/g, '[^/]*')
\*     .replace(/\?/g, '[^/]').replace(/\./g, '\\.')
RegexPattern(pattern) ==
    LET stars    == ReplaceAll(pattern, <<"*", "*">>, <<".", "*">>)
        star     == ReplaceAll(stars, <<"*">>, Re_NotSlash \o <<"*">>)
        question == ReplaceAll(star, <<"?">>, Re_NotSlash)
    IN  ReplaceAll(question, <<".">>, <<"\\", ".">>)

\* the atom a regular expression text starts with, and the length of its text
RegexAtom(re) ==
    IF Len(re) >= 4 /\ SubSeq(re, 1, 4) = Re_NotSlash
    THEN [kind |-> "notslash", char |-> "", len |-> 4]
    ELSE IF Len(re) >= 2 /\ re[1] = "\\"
    THEN [kind |-> "lit", char |-> re[2], len |-> 2]
    ELSE IF re[1] = "."
    THEN [kind |-> "any", char |-> "", len |-> 1]
    ELSE [kind |-> "lit", char |-> re[1], len |-> 1]

RECURSIVE RegexTokens(_)
\* new RegExp(text): the atoms of the text, each with its quantifier *
RegexTokens(re) ==
    IF re = <<>> THEN <<>>
    ELSE LET atom == RegexAtom(re)
             star == Len(re) > atom.len /\ re[atom.len + 1] = "*"
             used == atom.len + (IF star THEN 1 ELSE 0)
         IN  <<[kind |-> atom.kind, char |-> atom.char, star |-> star]>>
                 \o RegexTokens(SubSeq(re, used + 1, Len(re)))

AtomMatches(token, c) ==
    CASE token.kind = "lit" -> c = token.char
      [] token.kind = "notslash" -> c # "/"
      [] token.kind = "any" -> c # "\n"

RECURSIVE RegexMatchFrom(_, _, _, _)
\* the tokens from the k-th on match s from position i to its end
RegexMatchFrom(tokens, k, s, i) ==
    IF k > Len(tokens) THEN i > Len(s)
    ELSE IF tokens[k].star
         THEN \/ RegexMatchFrom(tokens, k + 1, s, i)
              \/ /\ i <= Len(s) /\ AtomMatches(tokens[k], s[i])
                 /\ RegexMatchFrom(tokens, k, s, i + 1)
         ELSE /\ i <= Len(s) /\ AtomMatches(tokens[k], s[i])
              /\ RegexMatchFrom(tokens, k + 1, s, i + 1)

\* new RegExp(`^${regexPattern}$`).test(s)
RegexTest(regexPattern, s) == RegexMatchFrom(RegexTokens(regexPattern), 1, s, 1)

\* matchesFilePatterns
MatchesFilePatterns(filePath, patterns) ==
    \E k \in 1..Len(patterns) :
        LET regexPattern == RegexPattern(patterns[k])
        IN  \/ RegexTest(regexPattern, filePath)
            \/ RegexTest(regexPattern, ReplaceAll(filePath, <<"\\">>, <<"/">>))

RECURSIVE GlobMatchFrom(_, _, _, _)
\* glob matching: ** is any sequence of characters, * any sequence without
\* '/', ? one character other than '/', any other character itself
GlobMatchFrom(pattern, k, s, i) ==
    IF k > Len(pattern) THEN i > Len(s)
    ELSE IF k < Len(pattern) /\ pattern[k] = "*" /\ pattern[k + 1] = "*"
         THEN \E j \in i..(Len(s) + 1) : GlobMatchFrom(pattern, k + 2, s, j)
    ELSE IF pattern[k] = "*"
         THEN \E j \in i..(Len(s) + 1) :
                  /\ \A m \in i..(j - 1) : s[m] # "/"
                  /\ GlobMatchFrom(pattern, k + 1, s, j)
    ELSE IF pattern[k] = "?"
         THEN i <= Len(s) /\ s[i] # "/" /\ GlobMatchFrom(pattern, k + 1, s, i + 1)
    ELSE i <= Len(s) /\ s[i] = pattern[k] /\ GlobMatchFrom(pattern, k + 1, s, i + 1)

GlobMatches(pattern, s) == GlobMatchFrom(pattern, 1, s, 1)

GlobMatchesAny(s, patterns) == \E k \in 1..Len(patterns) : GlobMatches(patterns[k], s)

\* path.relative(basePath, path.join(dirPath, entry.name)), dirPath given
\* relative to basePath (<<>>: basePath itself)
RelativePath(dir, name) == IF dir = <<>> THEN name ELSE dir \o <<"/">> \o name

Dir_Docs == <<"d", "o", "c", "s">>

Dir_Dist == <<"d", "i", "s", "t">>

Dir_Git == <<".", "g", "i", "t">>

Dir_Api == <<"a", "p", "i">>

File_GuideMd == <<"g", "u", "i", "d", "e", ".", "m", "d">>

File_AMd == <<"a", ".", "m", "d">>

File_OutMd == <<"o", "u", "t", ".", "m", "d">>

File_BTxt == <<"b", ".", "t", "x", "t">>

File_Link == <<"l", "i", "n", "k">>

DirEntry(name, kind) == [name |-> name, kind |-> kind]

\* fs.promises.readdir(dirPath, { withFileTypes: true }) in the scanned tree
ReadDir(dir) ==
    CASE dir = <<>> ->
            <<DirEntry(Dir_Docs, "directory"), DirEntry(File_AMd, "file"),
              DirEntry(Dir_Dist, "directory"), DirEntry(File_Link, "symlink"),
              DirEntry(Dir_Git, "directory")>>
      [] dir = Dir_Docs ->
            <<DirEntry(File_GuideMd, "file"), DirEntry(Dir_Api, "directory")>>
      [] dir = RelativePath(Dir_Docs, Dir_Api) -> <<DirEntry(File_BTxt, "file")>>
      [] dir = Dir_Dist -> <<DirEntry(File_OutMd, "file")>>
      [] dir = Dir_Git -> <<DirEntry(File_AMd, "file")>>
      [] OTHER -> <<>>

\* the files and the directories of the tree, by relative path
TreeFiles ==
    {File_AMd, RelativePath(Dir_Docs, File_GuideMd),
     RelativePath(RelativePath(Dir_Docs, Dir_Api), File_BTxt),
     RelativePath(Dir_Dist, File_OutMd), RelativePath(Dir_Git, File_AMd)}

TreeDirectories == {Dir_Docs, RelativePath(Dir_Docs, Dir_Api), Dir_Dist, Dir_Git}

ScanState == [pending |-> fsPending, files |-> fsFiles, stats |-> fsStats,
              descended |-> fsDescended]

\* scanDirectory up to its for loop: the entries of the directory are
\* visited before what is left of the loops that called it
ScanDirectory(st, dir, depth) ==
    IF depth > fsMaxDepth THEN st
    ELSE LET entries == ReadDir(dir)
         IN  [st EXCEPT !.stats.directoriesTraversed = @ + 1,
                        !.descended = Append(@, dir),
                        !.pending = [k \in 1..Len(entries) |->
                                        [relativePath |-> RelativePath(dir, entries[k].name),
                                         kind |-> entries[k].kind,
                                         depth |-> depth]] \o @]

\* processFile, for a file fs.promises.stat succeeds on
ProcessFile(st, relativePath) ==
    LET scanned == [st EXCEPT !.stats.totalScanned = @ + 1]
    IN  IF MatchesFilePatterns(relativePath, fsExclude)
        THEN [scanned EXCEPT !.stats.excluded = @ + 1]
        ELSE IF ~MatchesFilePatterns(relativePath, fsInclude)
        THEN [scanned EXCEPT !.stats.excluded = @ + 1]
        ELSE [scanned EXCEPT !.files = Append(@, relativePath),
                             !.stats.included = @ + 1]

\* one pass of the for loop of scanDirectory, with followSymlinks false
ScanEntryOf(st, entry) ==
    IF entry.kind = "symlink" THEN st
    ELSE IF entry.kind = "directory"
    THEN IF MatchesFilePatterns(entry.relativePath \o <<"/">>, fsExclude)
         THEN [st EXCEPT !.stats.excluded = @ + 1]
         ELSE ScanDirectory(st, entry.relativePath, entry.depth + 1)
    ELSE ProcessFile(st, entry.relativePath)

SetScanState(st) ==
    /\ fsPending' = st.pending
    /\ fsFiles' = st.files
    /\ fsStats' = st.stats
    /\ fsDescended' = st.descended
    /\ fspc' = IF st.pending = <<>> THEN "returned" ELSE "scanning"

\* discoverFilesFromFileSystem with enableFileSystemDiscovery set:
\* await this.scanDirectory(basePath, basePath, 0, files, stats)
ScanCall ==
    /\ fspc = "call"
    /\ SetScanState(ScanDirectory(ScanState, <<>>, 0))
    /\ UNCHANGED <<fsInclude, fsExclude, fsMaxDepth>>
    /\ UNCHANGED <<optVars, notScan>>

\* for (const entry of entries): the next entry
ScanEntry ==
    /\ fspc = "scanning"
    /\ SetScanState(ScanEntryOf([ScanState EXCEPT !.pending = Tail(@)], Head(fsPending)))
    /\ UNCHANGED <<fsInclude, fsExclude, fsMaxDepth>>
    /\ UNCHANGED <<optVars, notScan>>

ScanNext == ScanCall \/ ScanEntry

Pat_AllMd == <<"*", "*", "/", "*", ".", "m", "d">>

Pat_AllTxt == <<"*", "*", "/", "*", ".", "t", "x", "t">>

Pat_TopMd == <<"*", ".", "m", "d">>

Pat_Everything == <<"*", "*">>

Pat_DocsMd == <<"d", "o", "c", "s", "/", "*", ".", "m", "d">>

Pat_OneCharMd == <<"?", ".", "m", "d">>

Pat_HiddenDirs == <<"*", "*", "/", ".", "*", "/", "*", "*">>

Pat_AnyDist == <<"*", "*", "/", "d", "i", "s", "t", "/", "*", "*">>

Pat_Dist == <<"d", "i", "s", "t", "/", "*", "*">>

Pat_DistDir == <<"d", "i", "s", "t", "/">>

Pat_GitDir == <<".", "g", "i", "t", "/">>

DefaultMaxFileSystemDepth == 10

IncludePatternLists ==
    {<<Pat_AllMd, Pat_AllTxt>>, <<Pat_AllMd>>, <<Pat_TopMd>>, <<Pat_Everything>>,
     <<Pat_DocsMd>>, <<Pat_OneCharMd, Pat_DocsMd>>}

ExcludePatternLists ==
    {<<>>, <<Pat_HiddenDirs, Pat_AnyDist>>, <<Pat_Dist>>, <<Pat_DistDir>>,
     <<Pat_GitDir, Pat_TopMd>>}

MaxScanDepth == 1

InitScan ==
    /\ optRetries = DefaultRetries
    /\ optTransformer = "identity"
    /\ fsInclude \in IncludePatternLists
    /\ fsExclude \in ExcludePatternLists
    /\ fsMaxDepth \in 0..MaxScanDepth \cup {DefaultMaxFileSystemDepth}
    /\ fspc = "call"
    /\ fsPending = <<>> /\ fsFiles = <<>> /\ fsDescended = <<>>
    /\ fsStats = [totalScanned |-> 0, included |-> 0, excluded |-> 0,
                  directoriesTraversed |-> 0]
    /\ SiteIdle /\ FetchIdle /\ CrawlIdle /\ LimitsIdle /\ GenIdle /\ ExtractIdle
    /\ NormIdle /\ FilterIdle /\ FallbackIdle /\ LinksIdle /\ RouteIdle /\ CliIdle

SpecScan == InitScan /\ [][ScanNext]_vars


(***************************************************************************)
(* The route handler: ContentCache and the GET handler of createGET.       *)
(***************************************************************************)
MsPerMinute == 60000

DefaultCacheTtl == 60

\* this.ttl = ttlMinutes * 60 * 1000, for cacheTtl = 60 by default
CacheTtlMs(config) ==
    (IF config.cacheTtl = NoNumber THEN DefaultCacheTtl ELSE config.cacheTtl) * MsPerMinute

\* this.cache.get(key), for a key the Map has
MapGet(m, key) == (CHOOSE kv \in Range(m) : kv.key = key).value

\* this.cache.delete(key)
MapDelete(m, key) == SelectSeq(m, LAMBDA kv : kv.key # key)

\* an entry that never expires
IsExpiredNever(now, entry, ttl) == FALSE

\* const isExpired = Date.now() - entry.timestamp > this.ttl
IsExpired(now, entry, ttl) == now - entry.timestamp > ttl

\* ContentCache.get: what it returns (NoString: null) and the Map it leaves
CacheGet(cache, key, now, ttl) ==
    IF ~MapHas(cache, key) THEN [content |-> NoString, cache |-> cache]
    ELSE IF IsExpired(now, MapGet(cache, key), ttl)
    THEN [content |-> NoString, cache |-> MapDelete(cache, key)]
    ELSE [content |-> MapGet(cache, key).content, cache |-> cache]

\* ContentCache.set
CacheSet(cache, key, content, now) ==
    MapSet(cache, key, [content |-> content, timestamp |-> now])

\* ContentCache.clear
CacheClear(cache) == <<>>

RouteConfig(enableCache, cacheTtl, cacheKey, enableRevalidation, revalidationSecret) ==
    [enableCache |-> enableCache, cacheTtl |-> cacheTtl, cacheKey |-> cacheKey,
     enableRevalidation |-> enableRevalidation,
     revalidationSecret |-> revalidationSecret]

\* GET called without a request
NoRequest == [present |-> FALSE, revalidate |-> NoString, secret |-> NoString]

\* a request, with url.searchParams.get('revalidate') and
\* url.searchParams.get('secret') (NoString: null)
Request(revalidate, secret) ==
    [present |-> TRUE, revalidate |-> revalidate, secret |-> secret]

\* no secret is refused
UnauthorizedNever(secret, revalidationSecret) == FALSE

\* secret !== revalidationSecret
Unauthorized(secret, revalidationSecret) == secret # revalidationSecret

\* revalidate === 'true' inside if (enableRevalidation && request)
Revalidates(config, request) ==
    config.enableRevalidation /\ request.present /\ request.revalidate = "true"

\* const cacheKey = enableCache ? cacheKeyGenerator(generatorOptions) : ''
CacheKey(config) == IF config.enableCache THEN config.cacheKey ELSE NoString

\* cache && cacheKey
UsesCache(config) == config.enableCache /\ CacheKey(config) # NoString

\* new NextResponse(content, { status, headers }), with X-Generated-At
NextResponse(status, content, now) ==
    [status |-> status, content |-> content, generatedAt |-> now]

Str_Unauthorized == <<"U", "n", "a", "u", "t", "h", "o", "r", "i", "z", "e", "d">>

Str_ErrorResponse == <<"#", " ", "E", "r", "r", "o", "r">>

\* what the n-th call of generator.generate() returns: every generation
\* has its own content, never the empty string
GeneratedContent(n) == Text(n)

MaxCalls == 2

MaxInFlight == 2

\* createGET up to `return async function GET`
CreateGET ==
    /\ rtpc = "create"
    /\ IF rtConfig.enableRevalidation /\ rtConfig.revalidationSecret = NoString
       THEN rtpc' = "thrown"
       ELSE rtpc' = "ready"
    /\ UNCHANGED <<rtConfig, rtNow, rtCache, rtRequest, rtGet, rtCalls, rtGenerations,
                   rtResponses>>
    /\ UNCHANGED <<optVars, notRoute>>

\* GET(request) up to its return or to await generator.generate()
RouteGET(r, request) ==
    /\ rtpc = "ready" /\ rtGet[r] = "free" /\ rtCalls < MaxCalls
    /\ rtCalls' = rtCalls + 1
    /\ rtRequest' = Append(rtRequest, request)
    /\ IF /\ Revalidates(rtConfig, request)
          /\ Unauthorized(request.secret, rtConfig.revalidationSecret)
       THEN /\ rtResponses' = Append(rtResponses, NextResponse(401, Str_Unauthorized, rtNow))
            /\ UNCHANGED <<rtCache, rtGet, rtGenerations>>
       ELSE LET cleared == IF Revalidates(rtConfig, request) /\ rtConfig.enableCache
                           THEN CacheClear(rtCache) ELSE rtCache
                got == IF UsesCache(rtConfig)
                       THEN CacheGet(cleared, CacheKey(rtConfig), rtNow, CacheTtlMs(rtConfig))
                       ELSE [content |-> NoString, cache |-> cleared]
            IN  /\ rtCache' = got.cache
                /\ IF got.content # NoString
                   THEN /\ rtResponses' = Append(rtResponses, NextResponse(200, got.content, rtNow))
                        /\ UNCHANGED <<rtGet, rtGenerations>>
                   ELSE /\ rtGet' = [rtGet EXCEPT ![r] = "generating"]
                        /\ rtGenerations' = rtGenerations + 1
                        /\ UNCHANGED rtResponses
    /\ UNCHANGED <<rtConfig, rtpc, rtNow>>
    /\ UNCHANGED <<optVars, notRoute>>

\* generator.generate() resolves: cache.set and the response
RouteGenerated(r) ==
    /\ rtGet[r] = "generating"
    /\ LET content == GeneratedContent(rtGenerations)
       IN  /\ rtCache' = IF UsesCache(rtConfig)
                         THEN CacheSet(rtCache, CacheKey(rtConfig), content, rtNow)
                         ELSE rtCache
           /\ rtResponses' = Append(rtResponses, NextResponse(200, content, rtNow))
    /\ rtGet' = [rtGet EXCEPT ![r] = "free"]
    /\ UNCHANGED <<rtConfig, rtpc, rtNow, rtRequest, rtCalls, rtGenerations>>
    /\ UNCHANGED <<optVars, notRoute>>

\* generator.generate() rejects: the catch block
RouteFailed(r) ==
    /\ rtGet[r] = "generating"
    /\ rtResponses' = Append(rtResponses, NextResponse(500, Str_ErrorResponse, rtNow))
    /\ rtGet' = [rtGet EXCEPT ![r] = "free"]
    /\ UNCHANGED <<rtConfig, rtpc, rtNow, rtCache, rtRequest, rtCalls, rtGenerations>>
    /\ UNCHANGED <<optVars, notRoute>>

\* the times the clock is read at (milliseconds)
ClockTimes == {1, MsPerMinute, MsPerMinute + 1, DefaultCacheTtl * MsPerMinute + 1}

\* time passes
RouteTick ==
    /\ rtpc = "ready"
    /\ \E t \in ClockTimes : t > rtNow /\ rtNow' = t
    /\ UNCHANGED <<rtConfig, rtpc, rtCache, rtRequest, rtGet, rtCalls, rtGenerations,
                   rtResponses>>
    /\ UNCHANGED <<optVars, notRoute>>

Requests ==
    {NoRequest, Request(NoString, NoString), Request("true", "s3cret"),
     Request("true", "wrong"), Request("1", "s3cret")}

RouteNext ==
    \/ CreateGET
    \/ \E r \in 1..MaxInFlight : \E request \in Requests : RouteGET(r, request)
    \/ \E r \in 1..MaxInFlight : RouteGenerated(r)
    \/ \E r \in 1..MaxInFlight : RouteFailed(r)
    \/ RouteTick

\* enableCache, cacheTtl and the result of cacheKeyGenerator
CacheSettings ==
    {<<TRUE, 0, "key">>, <<TRUE, 1, "key">>, <<TRUE, NoNumber, "key">>,
     <<TRUE, 1, NoString>>, <<FALSE, 1, "key">>}

\* enableRevalidation and revalidationSecret
RevalidationSettings == {<<FALSE, NoString>>, <<TRUE, "s3cret">>, <<TRUE, NoString>>}

InitRoute ==
    /\ optRetries = DefaultRetries
    /\ optTransformer = "identity"
    /\ rtConfig \in {RouteConfig(c[1], c[2], c[3], v[1], v[2]) :
                        c \in CacheSettings, v \in RevalidationSettings}
    /\ rtpc = "create"
    /\ rtNow = 0 /\ rtCache = <<>> /\ rtRequest = <<>>
    /\ rtGet = [r \in 1..MaxInFlight |-> "free"]
    /\ rtCalls = 0 /\ rtGenerations = 0 /\ rtResponses = <<>>
    /\ SiteIdle /\ FetchIdle /\ CrawlIdle /\ LimitsIdle /\ GenIdle /\ ExtractIdle
    /\ NormIdle /\ FilterIdle /\ FallbackIdle /\ LinksIdle /\ ScanIdle /\ CliIdle

SpecRoute == InitRoute /\ [][RouteNext]_vars


(***************************************************************************)
(* The command line: parseArgs, LLMSCLI.run and writeOutput.               *)
(***************************************************************************)
\* a path is the sequence of its segments; "/" as the first one makes it
\* absolute
PathOf(arg) ==
    CASE arg = "public/llms.txt" -> <<"public", "llms.txt">>
      [] arg = "/srv/llms.txt" -> <<"/", "srv", "llms.txt">>
      [] OTHER -> <<arg>>

Cwd == <<"/", "cwd">>

DefaultOutput == "public/llms.txt"

\* path.isAbsolute
IsAbsolute(path) == path # <<>> /\ Head(path) = "/"

\* path.dirname
Dirname(path) == SubSeq(path, 1, Len(path) - 1)

\* getOutputPath
GetOutputPath(config) ==
    LET outputPath == PathOf(config.output)
    IN  IF IsAbsolute(outputPath) THEN outputPath ELSE Cwd \o outputPath

NoFile == [exists |-> FALSE, content |-> NoString]

File(content) == [exists |-> TRUE, content |-> content]

\* a path no file is at
ExistsSyncNever(files, path) == FALSE

\* fs.existsSync(path), for the path of a file
ExistsSync(files, path) == files[path].exists

\* fs.mkdirSync(dir, { recursive: true })
MkdirRecursive(dirs, dir) == dirs \cup {SubSeq(dir, 1, n) : n \in 1..Len(dir)}

\* arg.startsWith('-')
StartsWithDash(arg) ==
    arg \in {"-o", "--output", "-c", "--config", "-v", "--verbose", "-d", "--dry-run",
             "-f", "--force", "-s", "--stats", "-h", "--help", "--version", "-x"}

\* const config: CLIConfig = {} (NoString: undefined; a flag not set is
\* undefined, which the defaults of the constructor make false)
EmptyCliConfig ==
    [output |-> NoString, config |-> NoString, verbose |-> FALSE, dryRun |-> FALSE,
     force |-> FALSE, stats |-> FALSE]

\* args[i], undefined past the end
ArgAt(args, i) == IF i <= Len(args) THEN args[i] ELSE NoString

RECURSIVE ParseArgsFrom(_, _, _)
\* parseArgs from args[i] on: the config, or the process.exit it ends in
ParseArgsFrom(args, i, config) ==
    IF i > Len(args) THEN [exited |-> FALSE, code |-> 0, config |-> config]
    ELSE LET arg == args[i]
         IN  IF arg = NoString THEN ParseArgsFrom(args, i + 1, config)
             ELSE IF arg \in {"--output", "-o"}
             THEN ParseArgsFrom(args, i + 2,
                      IF ArgAt(args, i + 1) # NoString
                      THEN [config EXCEPT !.output = ArgAt(args, i + 1)] ELSE config)
             ELSE IF arg \in {"--config", "-c"}
             THEN ParseArgsFrom(args, i + 2,
                      IF ArgAt(args, i + 1) # NoString
                      THEN [config EXCEPT !.config = ArgAt(args, i + 1)] ELSE config)
             ELSE IF arg \in {"--verbose", "-v"}
             THEN ParseArgsFrom(args, i + 1, [config EXCEPT !.verbose = TRUE])
             ELSE IF arg \in {"--dry-run", "-d"}
             THEN ParseArgsFrom(args, i + 1, [config EXCEPT !.dryRun = TRUE])
             ELSE IF arg \in {"--force", "-f"}
             THEN ParseArgsFrom(args, i + 1, [config EXCEPT !.force = TRUE])
             ELSE IF arg \in {"--stats", "-s"}
             THEN ParseArgsFrom(args, i + 1, [config EXCEPT !.stats = TRUE])
             ELSE IF arg \in {"--help", "-h", "--version"}
             THEN [exited |-> TRUE, code |-> 0, config |-> config]
             ELSE IF StartsWithDash(arg)
             THEN [exited |-> TRUE, code |-> 1, config |-> config]
             ELSE ParseArgsFrom(args, i + 1, config)

ParseArgs(args) == ParseArgsFrom(args, 1, EmptyCliConfig)

\* the constructor of LLMSCLI: the defaults, then the parsed config
CliConfigOf(config) ==
    [config EXCEPT !.output = IF config.output = NoString THEN DefaultOutput ELSE @]

Err_ConfigFile == "Failed to load config file"

Err_Generate == "generate failed"

Err_OutputExists == "Output file already exists"

NewContent == "generated"

OldContent == "old"

\* main: parseArgs, new LLMSCLI(config), and run up to
\* await generator.generate(); loaded tells whether loadConfiguration
\* resolved
CliMain(loaded) ==
    /\ clipc = "main"
    /\ LET parsed == ParseArgs(cliArgs)
       IN  IF parsed.exited
           THEN /\ clipc' = "exited" /\ cliExitCode' = parsed.code
                /\ UNCHANGED <<cliConfig, cliError>>
           ELSE /\ cliConfig' = CliConfigOf(parsed.config)
                /\ IF loaded
                   THEN /\ clipc' = "generating"
                        /\ UNCHANGED <<cliExitCode, cliError>>
                   ELSE /\ clipc' = "exited" /\ cliExitCode' = 1
                        /\ cliError' = Err_ConfigFile
    /\ UNCHANGED <<cliArgs, cliFiles, cliDirs>>
    /\ UNCHANGED <<optVars, notCli>>

\* run from the end of await generator.generate() on: the dry run, or
\* writeOutput; generated tells whether generate() resolved
CliGenerated(generated) ==
    /\ clipc = "generating"
    /\ clipc' = "exited"
    /\ LET outputPath == GetOutputPath(cliConfig)
       IN  IF ~generated
           THEN /\ cliExitCode' = 1 /\ cliError' = Err_Generate
                /\ UNCHANGED <<cliFiles, cliDirs>>
           ELSE IF cliConfig.dryRun
           THEN UNCHANGED <<cliFiles, cliDirs, cliExitCode, cliError>>
           ELSE IF ExistsSync(cliFiles, outputPath) /\ ~cliConfig.force
           THEN /\ cliExitCode' = 1 /\ cliError' = Err_OutputExists
                /\ UNCHANGED <<cliFiles, cliDirs>>
           ELSE /\ cliDirs' = MkdirRecursive(cliDirs, Dirname(outputPath))
                /\ cliFiles' = [cliFiles EXCEPT ![outputPath] = File(NewContent)]
                /\ UNCHANGED <<cliExitCode, cliError>>
    /\ UNCHANGED <<cliArgs, cliConfig>>
    /\ UNCHANGED <<optVars, notCli>>

CliNext ==
    \/ \E loaded \in BOOLEAN : CliMain(loaded)
    \/ \E generated \in BOOLEAN : CliGenerated(generated)

ArgTokens ==
    {"-o", "out.txt", "/srv/llms.txt", "-d", "--dry-run", "-f", "--force", "-h", "-x"}

MaxArgs == 3

\* the paths a run can write to
OutputPaths ==
    {GetOutputPath([output |-> a]) : a \in ArgTokens \cup {DefaultOutput}}

\* the output files that can be there before the run
ExistingOutputs ==
    {GetOutputPath([output |-> a]) : a \in {DefaultOutput, "out.txt", "/srv/llms.txt"}}

InitCli ==
    /\ optRetries = DefaultRetries
    /\ optTransformer = "identity"
    /\ cliArgs \in SeqsUpTo(ArgTokens, MaxArgs)
    /\ clipc = "main"
    /\ cliConfig = <<>>
    /\ \E existing \in SUBSET ExistingOutputs :
          /\ cliFiles = [path \in OutputPaths |->
                            IF path \in existing THEN File(OldContent) ELSE NoFile]
          /\ cliDirs = {<<"/">>, Cwd} \cup {Dirname(path) : path \in existing}
    /\ cliExitCode = 0 /\ cliError = NoString
    /\ SiteIdle /\ FetchIdle /\ CrawlIdle /\ LimitsIdle /\ GenIdle /\ ExtractIdle
    /\ NormIdle /\ FilterIdle /\ FallbackIdle /\ LinksIdle /\ ScanIdle /\ RouteIdle

SpecCli == InitCli /\ [][CliNext]_vars


\* C31: the content of a successfully crawled page is the contentTransformer
\* applied once to the text extracted from the page.
C31_TransformerAppliedOnce ==
    (fpc = "returned" /\ fPage.success) =>
        fPage.content = ContentTransformer(optTransformer, fFetch.body.text)

\* C32: the discovery map holds at most one entry per normalized URL, and an
\* entry once made keeps its place, depth, parent and discovery method
\* through every later round, whatever links to its URL are found there.
C32_FirstDiscoveryWins ==
    /\ [](\A i, j \in 1..Len(discovered) :
             discovered[i].key = discovered[j].key => i = j)
    /\ [](\A i \in 1..Len(discovered) :
             discovered[i].key = NormalizeUrl(discovered[i].value.url))
    /\ [][gpc = "discovering" =>
             \A i \in 1..Len(discovered) :
                 /\ i <= Len(discovered')
                 /\ discovered'[i].key = discovered[i].key
                 /\ discovered'[i].value.depth = discovered[i].value.depth
                 /\ discovered'[i].value.parentUrl = discovered[i].value.parentUrl
                 /\ discovered'[i].value.discoveryMethod
                       = discovered[i].value.discoveryMethod]_vars

\* /a came from the sitemap, /d was found on /a, and the links of /d, one
\* of them back to /a, have been followed
C32_Witness ==
    /\ gpc = "sort" /\ optRecursive /\ dDepth >= 2
    /\ LocD \in DOMAIN siteLinks
    /\ \E k \in 1..Len(siteLinks[LocD]) : siteLinks[LocD][k] = LocA
    /\ \E i, j, e \in 1..Len(discoveredUrls) :
          /\ discoveredUrls[i].url = LocA /\ discoveredUrls[i].depth = 0
          /\ discoveredUrls[i].discoveryMethod = "sitemap"
          /\ discoveredUrls[j].url = LocD /\ discoveredUrls[j].depth = 1
          /\ discoveredUrls[e].parentUrl = LocD /\ discoveredUrls[e].depth = 2

\* C33: at every moment of crawlPages at most `concurrency` workers wait for
\* a crawlSinglePage, at every moment of a round of extractLinksFromPages at
\* most `concurrency` workers wait for an extractLinksFromPage, no URL of the
\* round is taken from the shared array twice, and when the round has
\* returned every URL of it has been taken by exactly one worker.
C33_PoolsWithinConcurrency ==
    /\ Cardinality({w \in DOMAIN wpc : wpc[w] = "crawling"}) <= optConcurrency
    /\ Cardinality({w \in DOMAIN kwpc : kwpc[w] = "fetching"}) <= kConcurrency
    /\ \A v, w \in DOMAIN kwpc :
          (kwpc[v] = "fetching" /\ kwpc[w] = "fetching" /\ kwurl[v] = kwurl[w]) => v = w
    /\ \A u \in Range(kRound) :
          LET takes == {i \in 1..Len(kTaken) : kTaken[i].url = u}
          IN  /\ Cardinality(takes) <= 1
              /\ kpc = "returned" => Cardinality(takes) = 1

\* a round of three URLs with two workers, each of which took a URL
C33_Witness ==
    /\ kpc = "returned"
    /\ kConcurrency = 2 /\ Len(kRound) = 3 /\ Len(kTaken) = 3
    /\ \E i, j \in 1..Len(kTaken) : kTaken[i].worker = 1 /\ kTaken[j].worker = 2

\* C34: a round of extractLinksFromPages always returns; a page of the round
\* whose fetch failed contributes no link, and of every other page of the
\* round all links are in the list returned.
C34_LinkFailureContained ==
    /\ kpc \in {"idle", "call", "running", "returned"}
    /\ kpc = "returned" =>
          \A u \in Range(kRound) :
              LET fetched == SiteFetch(siteBehaviour, SitemapUrl(u, NoString))
                  from    == SelectSeq(kDiscovered, LAMBDA d : d.parentUrl = u)
              IN  IF fetched.kind # "response" THEN from = <<>>
                  ELSE from = ExtractLinksFromPage(siteBehaviour, u, kDepth,
                                                   optMaxLinksPerPage, optSiteUrl)

\* a round with /a, which is down, and /d, whose links are collected
C34_Witness ==
    /\ kpc = "returned"
    /\ \E i, j \in 1..Len(kRound) : kRound[i] = LocA /\ kRound[j] = LocD
    /\ siteBehaviour[LocA] = "down"
    /\ LocA \in DOMAIN siteLinks /\ Len(siteLinks[LocA]) > 0
    /\ \E i \in 1..Len(kDiscovered) : kDiscovered[i].parentUrl = LocD
    /\ \A i \in 1..Len(kDiscovered) : kDiscovered[i].parentUrl # LocA

\* C35: every URL in the discovery map at depth 1 or more has the hostname
\* of the site URL, no page is the parent of more than maxLinksPerPage
\* entries, and no page of a round yields more than maxLinksPerPage links.
C35_InternalAndCapped ==
    /\ \A i \in 1..Len(discovered) :
          discovered[i].value.depth >= 1 =>
              /\ Hostname(discovered[i].key) = Hostname(optSiteUrl)
              /\ Hostname(discovered[i].value.url) = Hostname(optSiteUrl)
    /\ \A i \in 1..Len(discovered) :
          discovered[i].value.depth >= 1 =>
              Len(SelectSeq(discovered,
                            LAMBDA kv : kv.value.parentUrl = discovered[i].value.parentUrl))
                  <= optMaxLinksPerPage
    /\ gpc = "discovering" =>
          \A u \in Range(CurrentLevelUrls(discovered, dDepth)) :
              Len(ExtractLinksFromPage(siteBehaviour, u, dDepth + 1, optMaxLinksPerPage,
                                       optSiteUrl)) <= optMaxLinksPerPage

\* /a links to two pages of the site and to one of another host, and only
\* the first of them was taken
C35_Witness ==
    /\ gpc = "sort" /\ optRecursive /\ optMaxLinksPerPage = 1
    /\ siteLinks = DefaultLinks
    /\ \E k \in 1..Len(siteLinks[LocA]) : Hostname(siteLinks[LocA][k]) # Hostname(optSiteUrl)
    /\ Len(SelectSeq(discoveredUrls, LAMBDA d : d.parentUrl = LocA)) = 1
    /\ \E i \in 1..Len(discoveredUrls) :
          discoveredUrls[i].url = LocD /\ discoveredUrls[i].parentUrl = LocA

\* C37: when the readability, the semantic-selector and the content-selector
\* methods have failed, the JSON-LD script blocks of the page are still in
\* the document the metadata method reads, and what the method returns
\* contains the description and the text field of each of them.
C37_MetadataReadsJsonLd ==
    (xpc = "returned" /\ Len(xTried) >= 4) =>
        LET out == CallMethod(xTried[4], xDocument, LocA)
            scripts == xParsed.jsonLdScripts
        IN  /\ xTried[4] = "metadata"
            /\ xDocument.jsonLdScripts = scripts
            /\ ~out.threw =>
                  \A k \in 1..Len(scripts) :
                      /\ (scripts[k].valid /\ scripts[k].description # <<>>) =>
                            Includes(out.content,
                                     Str_StructuredDescription \o scripts[k].description)
                      /\ (scripts[k].valid /\ scripts[k].text # <<>>) =>
                            Includes(out.content, Str_ContentColon \o scripts[k].text)

\* C36: matchesFilePatterns agrees with glob matching (** any sequence, *
\* any sequence without '/', ? one character other than '/', any other
\* character itself), so docs/guide.md matches **/*.md; every file kept
\* matches an include glob and no exclude glob; no directory that matches
\* an exclude glob is descended into.
C36_GlobSemantics ==
    fspc = "returned" =>
        /\ \A k \in 1..Len(fsInclude \o fsExclude) :
              \A path \in TreeFiles \cup {d \o <<"/">> : d \in TreeDirectories} :
                  MatchesFilePatterns(path, <<(fsInclude \o fsExclude)[k]>>)
                      <=> GlobMatches((fsInclude \o fsExclude)[k], path)
        /\ MatchesFilePatterns(RelativePath(Dir_Docs, File_GuideMd), <<Pat_AllMd>>)
        /\ \A i \in 1..Len(fsFiles) :
              /\ ~GlobMatchesAny(fsFiles[i], fsExclude)
              /\ GlobMatchesAny(fsFiles[i], fsInclude)
        /\ \A i \in 1..Len(fsDescended) :
              fsDescended[i] # <<>> =>
                  ~GlobMatchesAny(fsDescended[i] \o <<"/">>, fsExclude)

\* a step in which GET is called
RouteCalled == rtCalls' = rtCalls + 1

\* the request of the call of a step
RouteCallRequest == rtRequest'[rtCalls']

\* a step in which a GET returns its response, and the response
RouteResponded == Len(rtResponses') = Len(rtResponses) + 1

RouteLastResponse == rtResponses'[Len(rtResponses')]

\* the cache is in use and holds an entry of age up to, or beyond, the TTL
CacheFresh ==
    /\ UsesCache(rtConfig) /\ MapHas(rtCache, CacheKey(rtConfig))
    /\ rtNow - MapGet(rtCache, CacheKey(rtConfig)).timestamp <= CacheTtlMs(rtConfig)

CacheStale ==
    /\ UsesCache(rtConfig) /\ MapHas(rtCache, CacheKey(rtConfig))
    /\ rtNow - MapGet(rtCache, CacheKey(rtConfig)).timestamp > CacheTtlMs(rtConfig)

\* C38: the content a GET returns from the cache is that of an entry no
\* older than the TTL, and the generator is not run for it; an expired
\* entry is deleted and the call goes on as a miss; a GET that finds an
\* entry within the TTL (and does not revalidate) returns its content,
\* runs no generation and leaves the cache as it is; a failed generation
\* leaves the cache as it is.
C38_CacheWithinTtl ==
    /\ [][(RouteCalled /\ RouteResponded /\ RouteLastResponse.status = 200) =>
              /\ CacheFresh
              /\ RouteLastResponse.content = MapGet(rtCache, CacheKey(rtConfig)).content
              /\ rtGenerations' = rtGenerations]_vars
    /\ [][(RouteCalled /\ CacheStale
              /\ ~(RouteResponded /\ RouteLastResponse.status = 401)) =>
              /\ ~MapHas(rtCache', CacheKey(rtConfig))
              /\ ~RouteResponded
              /\ rtGenerations' = rtGenerations + 1]_vars
    /\ [][(RouteCalled /\ CacheFresh /\ RouteCallRequest.revalidate # "true") =>
              /\ RouteResponded /\ RouteLastResponse.status = 200
              /\ RouteLastResponse.content = MapGet(rtCache, CacheKey(rtConfig)).content
              /\ rtGenerations' = rtGenerations
              /\ rtCache' = rtCache]_vars
    /\ [][(RouteResponded /\ RouteLastResponse.status = 500) => rtCache' = rtCache]_vars

\* a generation stored at time 0 is served again one minute later, at the
\* end of a TTL of one minute, and no second generation was run
C38_Witness ==
    /\ rtConfig.enableCache /\ rtConfig.cacheTtl = 1
    /\ rtNow = MsPerMinute
    /\ rtGenerations = 1
    /\ Len(rtResponses) = 2
    /\ rtResponses[1] = NextResponse(200, GeneratedContent(1), 0)
    /\ rtResponses[2] = NextResponse(200, GeneratedContent(1), MsPerMinute)

\* C39: with revalidation enabled, a request with revalidate=true and a
\* secret other than revalidationSecret is answered 401 and changes neither
\* the cache nor the generations; an entry within its TTL leaves the cache
\* only in a call that has revalidate=true and the right secret.
C39_RevalidationNeedsSecret ==
    /\ [][(/\ RouteCalled /\ rtConfig.enableRevalidation /\ RouteCallRequest.present
           /\ RouteCallRequest.revalidate = "true"
           /\ RouteCallRequest.secret # rtConfig.revalidationSecret) =>
              /\ RouteResponded /\ RouteLastResponse.status = 401
              /\ rtCache' = rtCache
              /\ rtGenerations' = rtGenerations
              /\ rtGet' = rtGet]_vars
    /\ [][(\E i \in 1..Len(rtCache) :
              /\ ~MapHas(rtCache', rtCache[i].key)
              /\ rtNow - rtCache[i].value.timestamp <= CacheTtlMs(rtConfig)) =>
              /\ RouteCalled /\ rtConfig.enableRevalidation /\ RouteCallRequest.present
              /\ RouteCallRequest.revalidate = "true"
              /\ RouteCallRequest.secret = rtConfig.revalidationSecret]_vars

\* content is cached and a request with a wrong secret was refused: the
\* entry is still there and no second generation was started
C39_Witness ==
    /\ rtConfig.enableRevalidation /\ rtConfig.cacheTtl = NoNumber
    /\ rtRequest = <<NoRequest, Request("true", "wrong")>>
    /\ rtResponses = <<NextResponse(200, GeneratedContent(1), 0),
                       NextResponse(401, Str_Unauthorized, 1)>>
    /\ MapHas(rtCache, CacheKey(rtConfig))
    /\ rtGenerations = 1

\* --force or -f is among the arguments
ForceGiven == \E i \in 1..Len(cliArgs) : cliArgs[i] \in {"--force", "-f"}

\* C40: a file that exists is changed only by a run that was given --force,
\* and a run that finds its output file there without --force fails; a run
\* in dry-run mode changes no file and no directory.
C40_NoOverwriteWithoutForce ==
    /\ [][\A path \in OutputPaths :
              (cliFiles[path].exists /\ cliFiles'[path] # cliFiles[path]) =>
                  ForceGiven]_vars
    /\ [][(/\ clipc = "generating" /\ clipc' = "exited" /\ ~cliConfig.dryRun
           /\ cliFiles[GetOutputPath(cliConfig)].exists /\ ~ForceGiven) =>
              /\ cliExitCode' = 1
              /\ cliFiles' = cliFiles]_vars
    /\ [][(clipc = "generating" /\ cliConfig.dryRun) =>
              (cliFiles' = cliFiles /\ cliDirs' = cliDirs)]_vars

\* out.txt was there, the run was not forced, and it ended in the error of
\* writeOutput with the file as it was
C40_Witness ==
    /\ clipc = "exited" /\ cliExitCode = 1 /\ cliError = Err_OutputExists
    /\ cliArgs = <<"-o", "out.txt">>
    /\ cliFiles[Cwd \o <<"out.txt">>] = File(OldContent)


====
